---- MODULE Spec2Model ----
(***************************************************************************)
(* A model of the preview-card wizard: the GitHub credential store, the    *)
(* rate-limit tracker, the repository client with its asset uploader, the  *)
(* wizard UI that drives them, and the ENS record merge.                   *)
(*                                                                         *)
(* Strings of the program are TLA+ strings; template literals are built    *)
(* with \o.  Time is Date.now() in milliseconds.  A promise that is        *)
(* awaited is a position of the caller (a pc) or an entry of an in-flight  *)
(* sequence; its settlement is a separate action.                          *)
(***************************************************************************)
EXTENDS Integers, Sequences, FiniteSets, TLC

VARIABLES
  now,            \* Date.now(), milliseconds
  rateLimits,     \* GitHubRateLimitService.rateLimits: resource -> snapshot
  lastUpdated,    \* GitHubRateLimitService.lastUpdated
  lsRateLimits,   \* localStorage['github_rate_limits']
  rlInflight,     \* rateLimit.get() requests awaiting their response
  lastCheck,      \* outcome of the checkRateLimit call just made
  token,          \* GitHubAuthService.token
  octokit,        \* GitHubAuthService.octokit: Null, or the token the client sends
  user,           \* GitHubAuthService.user
  lsToken,        \* localStorage['github_token']
  authCalls,      \* users.getAuthenticated() requests awaiting their response
  lastSetToken,   \* how the setToken call that just settled ended
  store,          \* the remote repositories: "owner/repo:path" -> file
  svcOctokit,     \* GitHubService.octokit
  upPc,           \* where the running uploadOgCardAssets invocation waits
  upArgs,         \* its arguments: folderPath, files
  upIdx,          \* index of the file its loop is at
  upSha,          \* the sha uploadFile read for that file
  upResults,      \* its results array
  upCalls,        \* the remote calls it has issued, with their outcome
  upDone,         \* the invocations that have settled, in order
  activeStep,     \* Index: the wizard step shown (0, 1, 2)
  idxFiles,       \* Index: files
  idxFolderPath,  \* Index: folderPath
  fuFiles,        \* FileUpload: files
  fuTimers,       \* FileUpload: the debounce timers pending
  fuLoads,        \* FileUpload: the loadImageUrl calls awaiting the image
  pcFolderPath,   \* PreviewCard: folderPath
  pcIsAuth,       \* PreviewCard: isAuthenticated
  pcRepos,        \* PreviewCard: repositories
  pcLoadRepos,    \* PreviewCard: the loadRepositories calls in flight
  pcChecks,       \* PreviewCard: the getRepositoryInfo calls in flight
  pcDialog,       \* PreviewCard: confirmUploadDialog
  pcUploadLoading, \* PreviewCard: uploadLoading
  pcUploadSuccess, \* PreviewCard: uploadSuccess
  pcWarning,      \* PreviewCard: showVisibilityWarning
  uiEdits,        \* how many URL edits the user has made
  fuOverlap,      \* FileUpload: the loads that succeeded while another was in flight
  pcCheckedRepo,  \* PreviewCard: the username and repo of the check that opened the dialog
  ensRemote,      \* the me.yodl text record the resolver holds
  previewData,    \* the previewData prop of the ENS components
  ensWritten,     \* the values written into me.yodl, in order
  euExistingData, \* EnsUpdater: existingData
  euResolver,     \* EnsUpdater: resolverAddress
  euIsJustaname,  \* EnsUpdater: isJustaname
  euSigning,      \* EnsUpdater: isUpdatingJustaname
  euSignedValue,  \* EnsUpdater: the Value line of the message given to signMessage
  jeEnsRecord,    \* JsonEditor: ensRecord
  jeEnsName,      \* JsonEditor: an ensName was found
  euEnsName,      \* EnsUpdater: ensName
  euNodeHash,     \* EnsUpdater: nodeHash
  euTimer,        \* EnsUpdater: the name the pending debounce timer will process
  euLookups,      \* EnsUpdater: the processEnsName invocations, running and ended
  crPc,           \* createRepository: where the invocation in progress is
  crCalls,        \* createRepository: the remote calls it has issued
  crDone,         \* createRepository: the invocations that have ended
  rdPc,           \* a read method of GitHubService: where its invocation is
  rdCall,         \* the read method invoked and when its refresh was issued
  rdDone          \* the read invocations that have ended

idxVars == <<activeStep, idxFiles, idxFolderPath>>
fuVars == <<fuFiles, fuTimers, fuLoads>>
pcVars == <<pcFolderPath, pcIsAuth, pcRepos, pcLoadRepos, pcChecks, pcDialog,
            pcUploadLoading, pcUploadSuccess, pcWarning>>
uiVars == <<idxVars, fuVars, pcVars, uiEdits, fuOverlap, pcCheckedRepo>>

lkVars == <<euEnsName, euNodeHash, euTimer, euLookups>>
euVars == <<euExistingData, euResolver, euIsJustaname, euSigning, euSignedValue,
           lkVars>>
jeVars == <<jeEnsRecord, jeEnsName>>
ensVars == <<ensRemote, previewData, ensWritten, euVars, jeVars>>

rdVars == <<rdPc, rdCall, rdDone>>
repoVars == <<crPc, crCalls, crDone, rdVars>>

upVars == <<store, svcOctokit, upPc, upArgs, upIdx, upSha, upResults, upCalls, upDone>>

authVars == <<token, octokit, user, lsToken, authCalls, lastSetToken>>
rlVars == <<now, rateLimits, lastUpdated, lsRateLimits, rlInflight, lastCheck>>

---------------------------------------------------------------------------
(* Bounds of the model *)

MaxTicks == 2          \* clock advances explored
MaxRemaining == 6      \* largest remaining count a response carries
MaxInflight == 1       \* rate-limit requests in flight at once
MaxRequired == 6       \* largest minimumRequired passed to checkRateLimit
MaxAuthCalls == 2      \* identity requests in flight at once
MaxRuns == 2           \* uploadOgCardAssets invocations explored
ShortReset == 1        \* seconds until a quota about to reset does so
MaxPending == 2        \* debounce timers and image loads pending at once
MaxChecks == 2         \* getRepositoryInfo calls in flight at once
MaxUiRuns == 1         \* uploads the wizard starts
MaxEdits == 4          \* URL edits the user makes
MaxWrites == 2         \* writes into me.yodl explored
MaxConcurrent == 2     \* updateRateLimits calls awaiting their response at once
MaxCreates == 1        \* createRepository invocations explored
MaxReads == 2          \* read-method invocations followed
MaxLookups == 3        \* processEnsName invocations explored

(* Program constants *)

updateInterval == 5 * 60 * 1000

StartNow == updateInterval     \* the clock is an epoch time: far past lastUpdated = 0
TickSteps == {1000, updateInterval}
ResetOffsets == {ShortReset, 2 * (updateInterval \div 1000)}   \* seconds until the quota resets
Times == {StartNow + a * 1000 + b * updateInterval :
            a \in 0..MaxTicks, b \in 0..MaxTicks}

Resources == {"core", "search"}
Null == "null"
NoCheck == [called |-> FALSE]

---------------------------------------------------------------------------
(* GitHubRateLimitService *)

\* Math.floor(Date.now() / 1000)
nowSeconds == now \div 1000

\* hasEnoughRemaining without the reset-time test of lines 94-98
hasEnoughRemaining_IgnoresReset(resource, minimumRequired) ==
  IF resource \notin DOMAIN rateLimits
    THEN TRUE
    ELSE rateLimits[resource].remaining >= minimumRequired

\* hasEnoughRemaining(resource, minimumRequired)
hasEnoughRemaining(resource, minimumRequired) ==
  IF resource \notin DOMAIN rateLimits
    THEN TRUE
    ELSE IF nowSeconds > rateLimits[resource].reset
      THEN TRUE
      ELSE rateLimits[resource].remaining >= minimumRequired

\* getRateLimitInfo(resource): the fields the error message is built from
getRateLimitInfo(resource) ==
  IF resource \notin DOMAIN rateLimits
    THEN [remaining |-> 5000, resetTime |-> "Unknown"]
    ELSE [remaining |-> rateLimits[resource].remaining,
          resetTime |-> rateLimits[resource].reset]

\* checkRateLimit(resource, minimumRequired): "ok", or the Error it throws
checkRateLimit(resource, minimumRequired) ==
  IF ~hasEnoughRemaining(resource, minimumRequired)
    THEN [threw |-> TRUE,
          message |-> "GitHub API rate limit exceeded",
          remaining |-> getRateLimitInfo(resource).remaining,
          resetTime |-> getRateLimitInfo(resource).resetTime]
    ELSE [threw |-> FALSE]

\* updateRateLimits up to its await: TRUE when it issues the network request
updateRateLimitsIssues == ~(now - lastUpdated < updateInterval)

\* the synchronous part of updateRateLimits(octokit), octokit non-null
updateRateLimitsStart ==
  rlInflight' = IF updateRateLimitsIssues /\ Len(rlInflight) < MaxInflight
                  THEN Append(rlInflight, now)
                  ELSE rlInflight

RemoveAt(s, i) == SubSeq(s, 1, i - 1) \o SubSeq(s, i + 1, Len(s))

\* the response of request i arrives: lines 55-74
UpdateRateLimitsResponse(i, coreRemaining, offset) ==
  /\ i \in 1..Len(rlInflight)
  /\ LET limits == [r \in Resources |->
                      [remaining |-> IF r = "core" THEN coreRemaining
                                                    ELSE MaxRemaining - coreRemaining,
                       reset |-> nowSeconds + offset]]
     IN /\ rateLimits' = limits
        /\ lastUpdated' = rlInflight[i]
        /\ lsRateLimits' = [rateLimits |-> limits, lastUpdated |-> rlInflight[i]]
  /\ rlInflight' = RemoveAt(rlInflight, i)
  /\ lastCheck' = NoCheck
  /\ UNCHANGED now

\* request i fails: the catch of lines 75-78
UpdateRateLimitsFailure(i) ==
  /\ i \in 1..Len(rlInflight)
  /\ rlInflight' = RemoveAt(rlInflight, i)
  /\ lastCheck' = NoCheck
  /\ UNCHANGED <<now, rateLimits, lastUpdated, lsRateLimits>>

\* a caller (any repository call that completed) refreshes the limits
UpdateRateLimitsCall ==
  /\ updateRateLimitsStart
  /\ lastCheck' = NoCheck
  /\ UNCHANGED <<now, rateLimits, lastUpdated, lsRateLimits>>

\* a caller checks its budget
CheckRateLimitCall(resource, minimumRequired) ==
  /\ lastCheck' = [called |-> TRUE, resource |-> resource,
                   minimumRequired |-> minimumRequired,
                   result |-> checkRateLimit(resource, minimumRequired)]
  /\ UNCHANGED <<now, rateLimits, lastUpdated, lsRateLimits, rlInflight>>

\* time passes
Tick(d) ==
  /\ now + d \in Times
  /\ now' = now + d
  /\ lastCheck' = NoCheck
  /\ UNCHANGED <<rateLimits, lastUpdated, lsRateLimits, rlInflight>>

\* new GitHubRateLimitService() with nothing saved in localStorage
InitRate ==
  /\ now = StartNow
  /\ rateLimits = << >>
  /\ lastUpdated = 0
  /\ lsRateLimits = Null
  /\ rlInflight = << >>
  /\ lastCheck = NoCheck

vars == <<rlVars, authVars, upVars, uiVars, ensVars, repoVars>>

---------------------------------------------------------------------------
(* GitHubAuthService (personal-access-token version) *)

TokenInputs == {"", "  ", "ghp_good", " ghp_good ", "ghp_two", "ghp_bad"}
ValidTokens == {"ghp_good", "ghp_two"}      \* the tokens GitHub accepts
NoSetToken == [settled |-> FALSE]

\* String.prototype.trim on the inputs above
Trim(t) == CASE t = "  " -> ""
             [] t = " ghp_good " -> "ghp_good"
             [] OTHER -> t

\* the user field when it is null
NoUser == [login |-> Null, fetchedWith |-> Null]

\* the identity GitHub returns for a token it accepts
UserOf(tok) == [login |-> IF tok = "ghp_good" THEN "alice" ELSE "bob",
                fetchedWith |-> tok]

getOctokit_Cached == svcOctokit

\* getOctokit()
getOctokit == octokit

\* isAuthenticated()
isAuthenticated == token # Null /\ user # NoUser

\* a signOut that leaves the github_token entry in local storage
signOutState_KeepsStorage ==
  [token |-> Null, octokit |-> Null, user |-> NoUser, lsToken |-> lsToken]

\* the assignments of signOut(), as the values the fields take
signOutState == [token |-> Null, octokit |-> Null, user |-> NoUser, lsToken |-> Null]

\* a catch block that only forgets the identity and keeps the stored token
setTokenFailureState_KeepsToken ==
  [token |-> token, octokit |-> octokit, user |-> NoUser, lsToken |-> lsToken]

\* what setToken's catch block leaves behind: signOut() has run (line 82)
setTokenFailureState == signOutState

\* the Error setToken throws from its catch block (line 84)
setTokenFailureMessage == "Invalid token or insufficient scope"

\* signOut()
SignOut ==
  /\ token' = signOutState.token
  /\ octokit' = signOutState.octokit
  /\ user' = signOutState.user
  /\ lsToken' = signOutState.lsToken
  /\ lastSetToken' = NoSetToken
  /\ UNCHANGED authCalls

\* setToken(newToken) up to the await of fetchUserInfo()
SetTokenCall(newToken) ==
  /\ Len(authCalls) < MaxAuthCalls
  /\ IF Trim(newToken) = ""
       THEN /\ lastSetToken' = [settled |-> TRUE, identity |-> "none",
                                rejected |-> TRUE, token |-> newToken,
                                message |-> "Invalid token provided."]
            /\ UNCHANGED <<token, octokit, user, lsToken, authCalls>>
       ELSE /\ token' = Trim(newToken)
            /\ lsToken' = Trim(newToken)
            /\ octokit' = Trim(newToken)
            /\ authCalls' = Append(authCalls,
                                   [caller |-> "setToken", tok |-> Trim(newToken)])
            /\ lastSetToken' = NoSetToken
            /\ UNCHANGED user

\* getAuthenticated() of call i answers: fetchUserInfo lines 95-102, then its caller
FetchUserInfoOk(i) ==
  /\ i \in 1..Len(authCalls)
  /\ authCalls[i].tok \in ValidTokens
  /\ user' = UserOf(authCalls[i].tok)
  /\ authCalls' = RemoveAt(authCalls, i)
  /\ lastSetToken' = IF authCalls[i].caller = "setToken"
                       THEN [settled |-> TRUE, identity |-> "ok",
                             rejected |-> FALSE, token |-> authCalls[i].tok,
                             user |-> UserOf(authCalls[i].tok)]
                       ELSE NoSetToken
  /\ UNCHANGED <<token, octokit, lsToken>>

\* getAuthenticated() of call i fails: fetchUserInfo lines 103-108, then the
\* catch of its caller (setToken lines 80-85, constructor lines 26-30)
FetchUserInfoFails(i) ==
  /\ i \in 1..Len(authCalls)
  /\ token' = setTokenFailureState.token
  /\ octokit' = setTokenFailureState.octokit
  /\ user' = setTokenFailureState.user
  /\ lsToken' = setTokenFailureState.lsToken
  /\ authCalls' = RemoveAt(authCalls, i)
  /\ lastSetToken' = IF authCalls[i].caller = "setToken"
                       THEN [settled |-> TRUE, identity |-> "failed",
                             rejected |-> TRUE, token |-> authCalls[i].tok,
                             message |-> setTokenFailureMessage]
                       ELSE NoSetToken

\* new GitHubAuthService(): the stored token, if any, is being validated
InitAuth ==
  /\ lsToken \in {Null} \cup ValidTokens \cup {"ghp_bad"}
  /\ token = lsToken
  /\ octokit = token
  /\ user = NoUser
  /\ authCalls = IF token # Null THEN <<[caller |-> "constructor", tok |-> token]>>
                                 ELSE << >>
  /\ lastSetToken = NoSetToken

SlotNames == <<"inner", "outer", "overlay">>
Usernames == {"alice"}
Repos == {"assets"}
Folders == {"card", "x"}

\* a preview is the data URL split at its commas; no preview is no part
NoPreview == << >>

\* a data URL as FileReader.readAsDataURL yields it
DataUrl(name) == <<"data:image/png;base64", "b64-" \o name>>

\* the files state FileUpload starts with
EmptyFiles == [i \in 1..3 |-> [name |-> SlotNames[i], preview |-> NoPreview]]

\* the folderPath state PreviewCard starts with; "custom" stands for the
\* random name `custom-${Math.random()...}`
NewFolderPath == [username |-> "", repo |-> "", folder |-> "custom"]

NoFolderPath == [username |-> "", repo |-> "", folder |-> ""]

\* the confirmation dialog is closed: no check has opened it
NoRepoChecked == [username |-> "", repo |-> ""]

\* the wizard as Index first renders it: step 0, FileUpload mounted,
\* PreviewCard not mounted
InitUI ==
  /\ activeStep = 0
  /\ idxFiles = << >>
  /\ idxFolderPath = NoFolderPath
  /\ fuFiles = EmptyFiles
  /\ fuTimers = {}
  /\ fuLoads = {}
  /\ pcFolderPath = NoFolderPath
  /\ pcIsAuth = FALSE
  /\ pcRepos = << >>
  /\ pcLoadRepos = {}
  /\ pcChecks = {}
  /\ pcDialog = FALSE
  /\ pcUploadLoading = FALSE
  /\ pcUploadSuccess = FALSE
  /\ pcWarning = FALSE
  /\ uiEdits = 0
  /\ fuOverlap = {}
  /\ pcCheckedRepo = NoRepoChecked

\* no read method is running
NoRead == [method |-> "", issued |-> 0]

\* no createRepository invocation and no read method has run
InitRepo ==
  /\ crPc = "idle"
  /\ crCalls = << >>
  /\ crDone = << >>
  /\ rdPc = "idle"
  /\ rdCall = NoRead
  /\ rdDone = << >>

\* a GitHubService just constructed: its client is the credential store's;
\* no invocation has run and the repositories hold no asset yet
InitUpload ==
  /\ store = << >>
  /\ svcOctokit = octokit
  /\ upPc = "idle"
  /\ upArgs = Null
  /\ upIdx = 0
  /\ upSha = Null
  /\ upResults = << >>
  /\ upCalls = << >>
  /\ upDone = << >>

---------------------------------------------------------------------------
(* JSON: the me.yodl record is a text; JSON.parse turns a text into a      *)
(* value and JSON.stringify a value into a text.  A value is a record of   *)
(* its kind and its own properties over the keys the model follows; a      *)
(* property holds a member value.  An object that lacks a key holds        *)
(* JsAbsent there, which is not the same as holding undefined.             *)

undefined == "undefined"

JsAbsent == [kind |-> "absent", lit |-> "", baseUrl |-> undefined, title |-> undefined]
JsUndefined == [kind |-> "undefined", lit |-> "", baseUrl |-> undefined, title |-> undefined]
\* a string, number or array member, by its JSON text
JsLiteral(l) == [kind |-> "literal", lit |-> l, baseUrl |-> undefined, title |-> undefined]
\* an og section: an object with the fields baseUrl and title
JsOg(b, t) == [kind |-> "object", lit |-> "", baseUrl |-> b, title |-> t]

TopKeys == {"tokenSymbols", "extra", "og", "0"}
IndexKeys == {"0"}
NoMembers == [k \in TopKeys |-> JsAbsent]

ObjectDoc(m) == [kind |-> "object", members |-> m]
ArrayDoc(m) == [kind |-> "array", members |-> m]
NumberDoc == [kind |-> "number", members |-> NoMembers]
NullDoc == [kind |-> "null", members |-> NoMembers]

\* texts: null or '' (both falsy), whitespace only, text that is not JSON,
\* and the JSON text of a value
NoText == [form |-> "none", doc |-> NullDoc]
BlankText == [form |-> "blank", doc |-> NullDoc]
Garbage == [form |-> "garbage", doc |-> NullDoc]
JsonText(d) == [form |-> "json", doc |-> d]

\* String.prototype.trim
trim(text) == IF text.form = "blank" THEN NoText ELSE text

\* JSON.parse(text): throws a SyntaxError unless text is JSON
JSONparse(text) ==
  IF text.form = "json" THEN [threw |-> FALSE, value |-> text.doc]
  ELSE [threw |-> TRUE, value |-> NullDoc]

\* JSON.stringify(value): a property holding undefined is left out, and of
\* an array only the elements are written
JSONstringify(value) ==
  JsonText([kind |-> value.kind,
            members |-> [k \in TopKeys |->
               IF value.kind = "object" \/ (value.kind = "array" /\ k \in IndexKeys)
               THEN IF value.members[k].kind = "undefined" THEN JsAbsent
                    ELSE value.members[k]
               ELSE JsAbsent]])

\* value.og: undefined when value has no such property; a TypeError on null
readThrows(value) == value.kind = "null"
readOg(value) ==
  IF value.kind \in {"object", "array"} /\ value.members["og"].kind # "absent"
  THEN value.members["og"] ELSE JsUndefined

\* value.og = v in module (strict) code: a TypeError on null and on a number
assignThrows(value) == value.kind \in {"null", "number"}

\* { ...value }: the own enumerable properties; none for null and a number
spread(value) ==
  IF value.kind \in {"object", "array"} THEN value.members ELSE NoMembers

\* { ...og, baseUrl: b }: the fields of og when it is an object
mergeOg(og, b) == JsOg(b, IF og.kind = "object" THEN og.title ELSE undefined)

OldUrl == "https://cdn.jsdelivr.net/gh/alice/assets/og/old"
CustomUrl == "https://example.org/og"
USDT == JsLiteral("[\"USDT\"]")
DefaultTokens == JsLiteral("[\"USDT\",\"USDC\"]")

\* the records the resolver may hold before the first update
ExistingTexts ==
  { NoText, BlankText, Garbage,
    JsonText(ObjectDoc([NoMembers EXCEPT !["tokenSymbols"] = USDT,
                                         !["extra"] = JsLiteral("\"x\"")])),
    JsonText(ObjectDoc([NoMembers EXCEPT !["tokenSymbols"] = USDT,
                                         !["og"] = JsOg(OldUrl, "t")])),
    JsonText(ArrayDoc([NoMembers EXCEPT !["0"] = JsLiteral("\"a\"")])),
    JsonText(NumberDoc),
    JsonText(NullDoc) }

\* what the user may type into the JSON textarea of JsonEditor
EditTexts ==
  { Garbage,
    JsonText(ObjectDoc([NoMembers EXCEPT !["tokenSymbols"] = USDT])),
    JsonText(ObjectDoc([NoMembers EXCEPT !["og"] = JsOg(CustomUrl, undefined)])),
    JsonText(NullDoc) }

\* Index: the baseUrl of previewData
previewBaseUrl(folderPath) ==
  IF folderPath = NoFolderPath THEN ""
  ELSE "https://cdn.jsdelivr.net/gh/" \o folderPath.username \o "/"
         \o folderPath.repo \o "/og/" \o folderPath.folder

NoPreviewData == [set |-> FALSE, baseUrl |-> ""]
PreviewDatas ==
  { NoPreviewData,
    [set |-> TRUE, baseUrl |-> previewBaseUrl(NoFolderPath)],
    [set |-> TRUE, baseUrl |->
       previewBaseUrl([username |-> "alice", repo |-> "assets", folder |-> "card"])] }

\* previewData?.baseUrl || ''
previewUrl == IF previewData.set THEN previewData.baseUrl ELSE ""

\* JsonEditor: useState({ tokenSymbols: ["USDT", "USDC"] })
InitialRecord == ObjectDoc([NoMembers EXCEPT !["tokenSymbols"] = DefaultTokens])

\* JsonEditor: the default record of the fetchRecords effect
defaultRecord ==
  ObjectDoc([NoMembers EXCEPT !["tokenSymbols"] = DefaultTokens,
                              !["og"] = JsOg(previewUrl, undefined)])

\* JsonEditor: setEnsRecord(prev => ({ ...prev, og: { baseUrl } })), run by
\* the previewData effect when previewData?.baseUrl is truthy
withPreviewUrl(prev) ==
  IF previewUrl # ""
  THEN ObjectDoc([spread(prev) EXCEPT !["og"] = JsOg(previewUrl, undefined)])
  ELSE prev

\* EnsUpdater: the names typed into the ENS name input
HomeName == "alice.eth"
Names == {"alice.eth", " bob.yodl.eth", "nodot"}

\* name.trim().replace(<invisible characters>, '')
cleanName(name) == IF name = " bob.yodl.eth" THEN "bob.yodl.eth" ELSE name

\* cleanName.includes('.')
includesDot(clean) == clean # "nodot"

\* endsWith('.yodl.eth') || endsWith('.yodl') || includes('.yod')
isYodlDomain(clean) == clean = "bob.yodl.eth"

\* viem's normalize, on names that are already in normal form
normalize(clean) == clean

\* viem's namehash: the node of a name
namehash(normalized) == "namehash(" \o normalized \o ")"

\* the two hard-coded resolvers (getAddress changes only the letter case)
YODL_RESOLVER == "0xdba48394d77ed167f4e8d49850bd3c216c2c95df"
PublicResolver == "0x231b0Ee14048e9dCcD1d247744d114a4EB5E8E63"

\* PROVIDER_URLS.length
Providers == 3

\* what the JustaName records API holds for a name: the resolver address of
\* its data and the value of its me.yodl text
ApiResolver(clean) == "0xJustaName:" \o clean
ApiRecord(clean) ==
  JsonText(ObjectDoc([NoMembers EXCEPT !["extra"] = JsLiteral("api:" \o clean)]))

\* the text the resolver of a name returns for its node and me.yodl
ChainRecord(clean) ==
  JsonText(ObjectDoc([NoMembers EXCEPT !["extra"] = JsLiteral("chain:" \o clean)]))

\* the fallback of processEnsName: lines 317-326
fallbackResolver(clean) == IF isYodlDomain(clean) THEN YODL_RESOLVER ELSE PublicResolver

fallbackNeeded_Always(justanameFetched) == TRUE

\* if (!justanameFetched)
fallbackNeeded(justanameFetched) == ~justanameFetched

\* EnsUpdater and JsonEditor after their first render and its effects, for
\* each record the resolver may hold and each previewData
InitEns ==
  /\ ensRemote \in ExistingTexts
  /\ previewData \in PreviewDatas
  /\ ensWritten = << >>
  /\ euExistingData = NoText
  /\ euResolver = Null
  /\ euIsJustaname = FALSE
  /\ euSigning = FALSE
  /\ euSignedValue = NoText
  /\ euEnsName = HomeName
  /\ euNodeHash = Null
  /\ euTimer = Null
  /\ euLookups = << >>
  /\ jeEnsRecord = withPreviewUrl(InitialRecord)
  /\ jeEnsName = FALSE

\* the same before any previewData exists and with no record set
EnsUnmounted ==
  /\ ensRemote = NoText
  /\ previewData = NoPreviewData
  /\ ensWritten = << >>
  /\ euExistingData = NoText
  /\ euResolver = Null
  /\ euIsJustaname = FALSE
  /\ euSigning = FALSE
  /\ euSignedValue = NoText
  /\ euEnsName = ""
  /\ euNodeHash = Null
  /\ euTimer = Null
  /\ euLookups = << >>
  /\ jeEnsRecord = InitialRecord
  /\ jeEnsName = FALSE

---------------------------------------------------------------------------
AuthSetToken == \E t \in TokenInputs : SetTokenCall(t)
AuthOk == \E i \in 1..MaxAuthCalls : FetchUserInfoOk(i)
AuthFails == \E i \in 1..MaxAuthCalls : FetchUserInfoFails(i)

NextAuth ==
  \/ AuthSetToken /\ UNCHANGED <<rlVars, upVars, uiVars, ensVars, repoVars>>
  \/ AuthOk /\ UNCHANGED <<rlVars, upVars, uiVars, ensVars, repoVars>>
  \/ AuthFails /\ UNCHANGED <<rlVars, upVars, uiVars, ensVars, repoVars>>
  \/ SignOut /\ UNCHANGED <<rlVars, upVars, uiVars, ensVars, repoVars>>

InitSpecAuth == InitAuth /\ InitRate /\ InitUpload /\ InitUI /\ EnsUnmounted /\ InitRepo

SpecAuth == InitSpecAuth /\ [][NextAuth]_vars

---------------------------------------------------------------------------
(* The credential store with the entry points of its OAuth variant added:  *)
(* setManualToken and handleCallback write the same token field and the    *)
(* same github_token entry as setToken and signOut.                        *)

OAuthToken == "gho_oauth"       \* the access_token the exchange returns
ManualTokens == {"ghp_good", "ghp_bad"}
PatCallers == {"constructor", "setToken"}

\* setManualToken(token)
SetManualToken(t) ==
  /\ token' = t
  /\ lsToken' = t
  /\ octokit' = t
  /\ lastSetToken' = NoSetToken
  /\ UNCHANGED <<user, authCalls>>

\* handleCallback(code) up to the await of the token exchange
HandleCallbackCall ==
  /\ Len(authCalls) < MaxAuthCalls
  /\ authCalls' = Append(authCalls, [caller |-> "exchange", tok |-> Null])
  /\ lastSetToken' = NoSetToken
  /\ UNCHANGED <<token, octokit, user, lsToken>>

\* the exchange of call i settles: with an access_token the token is stored
\* and fetchUserInfo() is awaited; otherwise handleCallback returns false
HandleCallbackExchanged(i, answer) ==
  /\ i \in 1..Len(authCalls)
  /\ authCalls[i].caller = "exchange"
  /\ IF answer = "access_token"
       THEN /\ token' = OAuthToken
            /\ lsToken' = OAuthToken
            /\ octokit' = OAuthToken
            /\ authCalls' = [authCalls EXCEPT ![i] = [caller |-> "handleCallback",
                                                      tok |-> OAuthToken]]
       ELSE /\ authCalls' = RemoveAt(authCalls, i)
            /\ UNCHANGED <<token, octokit, lsToken>>
  /\ lastSetToken' = NoSetToken
  /\ UNCHANGED user

\* getAuthenticated() of handleCallback's fetchUserInfo settles: the OAuth
\* variant stores the identity on success and only logs a failure
HandleCallbackUserInfo(i, ok) ==
  /\ i \in 1..Len(authCalls)
  /\ authCalls[i].caller = "handleCallback"
  /\ user' = IF ok THEN UserOf(authCalls[i].tok) ELSE user
  /\ authCalls' = RemoveAt(authCalls, i)
  /\ lastSetToken' = NoSetToken
  /\ UNCHANGED <<token, octokit, lsToken>>

StoreSetToken == \E t \in {"ghp_good", " ghp_good ", "ghp_bad", "  "} : SetTokenCall(t)
StoreOk ==
  \E i \in 1..MaxAuthCalls :
     /\ i <= Len(authCalls)
     /\ authCalls[i].caller \in PatCallers
     /\ FetchUserInfoOk(i)
StoreFails ==
  \E i \in 1..MaxAuthCalls :
     /\ i <= Len(authCalls)
     /\ authCalls[i].caller \in PatCallers
     /\ FetchUserInfoFails(i)
StoreManualToken == \E t \in ManualTokens : SetManualToken(t)
StoreExchanged ==
  \E i \in 1..MaxAuthCalls, a \in {"access_token", "no token", "not ok"} :
     HandleCallbackExchanged(i, a)
StoreUserInfo == \E i \in 1..MaxAuthCalls, ok \in BOOLEAN : HandleCallbackUserInfo(i, ok)

NextStore ==
  \/ StoreSetToken /\ UNCHANGED <<rlVars, upVars, uiVars, ensVars, repoVars>>
  \/ StoreOk /\ UNCHANGED <<rlVars, upVars, uiVars, ensVars, repoVars>>
  \/ StoreFails /\ UNCHANGED <<rlVars, upVars, uiVars, ensVars, repoVars>>
  \/ SignOut /\ UNCHANGED <<rlVars, upVars, uiVars, ensVars, repoVars>>
  \/ StoreManualToken /\ UNCHANGED <<rlVars, upVars, uiVars, ensVars, repoVars>>
  \/ HandleCallbackCall /\ UNCHANGED <<rlVars, upVars, uiVars, ensVars, repoVars>>
  \/ StoreExchanged /\ UNCHANGED <<rlVars, upVars, uiVars, ensVars, repoVars>>
  \/ StoreUserInfo /\ UNCHANGED <<rlVars, upVars, uiVars, ensVars, repoVars>>

InitSpecStore == InitAuth /\ InitRate /\ InitUpload /\ InitUI /\ EnsUnmounted /\ InitRepo

SpecStore == InitSpecStore /\ [][NextStore]_vars

RateResponse ==
  \E i \in 1..MaxInflight, c \in 0..MaxRemaining, o \in ResetOffsets :
     UpdateRateLimitsResponse(i, c, o)
RateFailure == \E i \in 1..MaxInflight : UpdateRateLimitsFailure(i)
RateCheck ==
  \E r \in Resources \cup {"graphql"}, n \in 0..MaxRequired : CheckRateLimitCall(r, n)
RateTick == \E d \in TickSteps : Tick(d)

\* a session that holds a valid credential and no identity request in flight
AuthSignedIn ==
  /\ token = "ghp_good" /\ octokit = "ghp_good" /\ lsToken = "ghp_good"
  /\ user = UserOf("ghp_good")
  /\ authCalls = << >>
  /\ lastSetToken = NoSetToken

NextRate ==
  \/ UpdateRateLimitsCall /\ UNCHANGED <<authVars, upVars, uiVars, ensVars, repoVars>>
  \/ RateResponse /\ UNCHANGED <<authVars, upVars, uiVars, ensVars, repoVars>>
  \/ RateFailure /\ UNCHANGED <<authVars, upVars, uiVars, ensVars, repoVars>>
  \/ RateCheck /\ UNCHANGED <<authVars, upVars, uiVars, ensVars, repoVars>>
  \/ RateTick /\ UNCHANGED <<authVars, upVars, uiVars, ensVars, repoVars>>

InitSpecRate == InitRate /\ AuthSignedIn /\ InitUpload /\ InitUI /\ EnsUnmounted /\ InitRepo

SpecRate == InitSpecRate /\ [][NextRate]_vars

---------------------------------------------------------------------------
(* updateRateLimits called again while earlier calls await their response  *)

\* updateRateLimits(octokit), octokit non-null, up to its await; a call
\* inside the interval returns true at line 51
UpdateRateLimitsConcurrent ==
  /\ Len(rlInflight) < MaxConcurrent
  /\ rlInflight' = IF updateRateLimitsIssues THEN Append(rlInflight, now)
                                              ELSE rlInflight
  /\ lastCheck' = NoCheck
  /\ UNCHANGED <<now, rateLimits, lastUpdated, lsRateLimits>>

RefreshResponse ==
  \E i \in 1..MaxConcurrent, c \in {0, MaxRemaining}, o \in ResetOffsets :
     UpdateRateLimitsResponse(i, c, o)
RefreshFailure == \E i \in 1..MaxConcurrent : UpdateRateLimitsFailure(i)

NextRefresh ==
  \/ UpdateRateLimitsConcurrent /\ UNCHANGED <<authVars, upVars, uiVars, ensVars, repoVars>>
  \/ RefreshResponse /\ UNCHANGED <<authVars, upVars, uiVars, ensVars, repoVars>>
  \/ RefreshFailure /\ UNCHANGED <<authVars, upVars, uiVars, ensVars, repoVars>>
  \/ RateTick /\ UNCHANGED <<authVars, upVars, uiVars, ensVars, repoVars>>

InitSpecRefresh == InitRate /\ AuthSignedIn /\ InitUpload /\ InitUI /\ EnsUnmounted /\ InitRepo

SpecRefresh == InitSpecRefresh /\ [][NextRefresh]_vars

---------------------------------------------------------------------------
(* GitHubService: uploadFile and uploadOgCardAssets, and the remote store  *)

PerFileBudget == 5     \* checkRateLimit('core', 5) of uploadFile
CallsPerFile == 2      \* getContent + createOrUpdate

FolderPaths == [username : Usernames, repo : Repos, folder : Folders]

\* which slots hold a preview in the file lists explored
PreviewSets == {{1, 2, 3}, {1, 3}, {}}

\* the file lists a caller can pass: each slot with or without a preview
FileLists ==
  {[i \in 1..3 |-> [name |-> SlotNames[i],
                    preview |-> IF i \in S THEN DataUrl(SlotNames[i]) ELSE NoPreview]] :
     S \in PreviewSets}

\* file.preview.split(',')[1]
base64Content(preview) == preview[2]

\* the blob SHA GitHub derives from a file's content
ShaOf(content) == "sha-" \o content

baseFolder_DropsOg(folderPath) == folderPath.folder

\* `og/${folderPath.folder}`
baseFolder(folderPath) == "og/" \o folderPath.folder

\* `${baseFolder}/${file.name}.png`
filePath(folderPath, file) == baseFolder(folderPath) \o "/" \o file.name \o ".png"

\* the baseUrl of the returned object
baseUrl(folderPath) ==
  "https://cdn.jsdelivr.net/gh/" \o folderPath.username \o "/" \o folderPath.repo
    \o "/" \o baseFolder(folderPath)

\* the remote's name for a file of a repository
StoreKey(owner, repo, path) == owner \o "/" \o repo \o ":" \o path

\* files.filter(f => f.preview).length * 2
requiredCalls(files) ==
  Cardinality({i \in DOMAIN files : files[i].preview # NoPreview}) * CallsPerFile

\* a loop that takes the populated files from the end of the list
NextFile_Last(files, k) ==
  LET later == {i \in DOMAIN files : i >= k /\ files[i].preview # NoPreview}
  IN IF later = {} THEN 0 ELSE CHOOSE i \in later : \A j \in later : i >= j

\* the loop's `if (!file.preview) continue`: the next file at or after k that
\* is uploaded, 0 when the loop ends
NextFile(files, k) ==
  LET later == {i \in DOMAIN files : i >= k /\ files[i].preview # NoPreview}
  IN IF later = {} THEN 0 ELSE CHOOSE i \in later : \A j \in later : i <= j

\* error.message.includes('rate limit exceeded')
IsRateLimitError(e) == e.message = "GitHub API rate limit exceeded"

AuthRequired == [kind |-> "error", message |-> "GitHub authentication required"]

\* the TypeError of this.octokit.rest when another method of the service has
\* set this.octokit to null since the guard
NullClientError == [kind |-> "error", message |-> "TypeError"]

writeSha_Omitted(sha) == Null

\* the sha spread into the write: ...(sha ? { sha } : {})
writeSha(sha) == sha

\* the key of the file the loop is at
CurrentKey ==
  StoreKey(upArgs.folderPath.username, upArgs.folderPath.repo,
           filePath(upArgs.folderPath, upArgs.files[upIdx]))

\* the rate-limit requests in flight after one more updateRateLimits call
StartRefresh(q) ==
  IF updateRateLimitsIssues /\ Len(q) < MaxInflight THEN Append(q, now) ELSE q

\* The loop from file k on, up to its next await or its end: uploadFile's
\* credential and budget guards, then getContent is issued; after the last
\* file the final refresh and the returned object.
LoopFrom(args, k, results, calls, inflight, client) ==
  LET j == NextFile(args.files, k)
      chk == checkRateLimit("core", PerFileBudget)
      key == StoreKey(args.folderPath.username, args.folderPath.repo,
                      filePath(args.folderPath, args.files[j]))
  IN IF j = 0
       THEN [pc |-> "idle", idx |-> 0, calls |-> calls, client |-> client,
             inflight |-> IF client # Null THEN StartRefresh(inflight)
                                           ELSE inflight,
             outcome |-> [kind |-> "success", success |-> TRUE,
                          baseUrl |-> baseUrl(args.folderPath),
                          results |-> results]]
     ELSE IF getOctokit = Null
       THEN [pc |-> "idle", idx |-> j, calls |-> calls, inflight |-> inflight,
             client |-> getOctokit, outcome |-> AuthRequired]
     ELSE IF chk.threw /\ IsRateLimitError(chk)
       THEN [pc |-> "idle", idx |-> j, calls |-> calls, inflight |-> inflight,
             client |-> getOctokit,
             outcome |-> [kind |-> "error", message |-> chk.message,
                          remaining |-> chk.remaining,
                          resetTime |-> chk.resetTime]]
     ELSE [pc |-> "getContent", idx |-> j, inflight |-> inflight,
           client |-> getOctokit,
           calls |-> Append(calls, [op |-> "getContent", key |-> key]),
           outcome |-> Null]

\* the invocation moves to position n (a record LoopFrom built)
MoveTo(args, n, results) ==
  /\ upPc' = n.pc
  /\ upIdx' = IF n.pc = "idle" THEN 0 ELSE n.idx
  /\ upSha' = Null
  /\ svcOctokit' = n.client
  /\ rlInflight' = n.inflight
  /\ IF n.pc = "idle"
       THEN /\ upDone' = Append(upDone, [args |-> args, outcome |-> n.outcome,
                                         calls |-> n.calls])
            /\ upArgs' = Null /\ upResults' = << >> /\ upCalls' = << >>
       ELSE /\ upDone' = upDone
            /\ upArgs' = args /\ upResults' = results /\ upCalls' = n.calls

\* uploadOgCardAssets(folderPath, files) up to its first await
UploadCall(folderPath, files) ==
  /\ upPc = "idle"
  /\ Len(upDone) < MaxRuns
  /\ LET chk == checkRateLimit("core", requiredCalls(files))
         args == [folderPath |-> folderPath, files |-> files]
     IN IF getOctokit = Null
          THEN MoveTo(args, [pc |-> "idle", calls |-> << >>, inflight |-> rlInflight,
                             client |-> getOctokit, outcome |-> AuthRequired], << >>)
        ELSE IF chk.threw /\ IsRateLimitError(chk)
          THEN MoveTo(args, [pc |-> "idle", calls |-> << >>, inflight |-> rlInflight,
                             client |-> getOctokit,
                             outcome |-> [kind |-> "error", message |-> chk.message,
                                          remaining |-> chk.remaining,
                                          resetTime |-> chk.resetTime]], << >>)
        ELSE MoveTo(args, LoopFrom(args, 1, << >>, << >>, rlInflight, getOctokit), << >>)
  /\ lastCheck' = NoCheck
  /\ UNCHANGED <<now, rateLimits, lastUpdated, lsRateLimits, store>>

\* getContent settles (found, "notFound" or a transport "error"), and
\* createOrUpdateFileContents is issued: uploadFile lines 144-167
GetContentResponse(answer) ==
  /\ upPc = "getContent"
  /\ answer = "found" => CurrentKey \in DOMAIN store
  /\ answer = "notFound" => CurrentKey \notin DOMAIN store
  /\ LET sha == IF answer = "found" THEN store[CurrentKey].sha ELSE Null
         logged == [upCalls EXCEPT ![Len(upCalls)] =
                      [op |-> "getContent", key |-> CurrentKey, answer |-> answer]]
     IN IF svcOctokit = Null
          THEN MoveTo(upArgs,
                      [pc |-> "idle", calls |-> logged, inflight |-> rlInflight,
                       client |-> svcOctokit, outcome |-> NullClientError],
                      upResults)
          ELSE /\ upSha' = writeSha(sha)
               /\ upCalls' = Append(logged,
                     [op |-> "createOrUpdate", key |-> CurrentKey,
                      sha |-> writeSha(sha)])
               /\ upPc' = "write"
               /\ UNCHANGED <<rlInflight, svcOctokit, upArgs, upIdx, upResults,
                              upDone>>
  /\ lastCheck' = NoCheck
  /\ UNCHANGED <<now, rateLimits, lastUpdated, lsRateLimits, store>>

\* what the remote answers to the write in flight
RemoteAccepts ==
  IF CurrentKey \in DOMAIN store THEN upSha = store[CurrentKey].sha
                                 ELSE upSha = Null

writeFailure_Swallowed(answer) ==
  [rethrown |-> FALSE, error |-> [kind |-> "error", message |-> answer]]

\* the catch blocks around a failed write (uploadFile 173-176, the loop 220-223)
writeFailure(answer) == [rethrown |-> TRUE, error |-> [kind |-> "error", message |-> answer]]

\* createOrUpdateFileContents settles ("ok", "conflict" or a transport "error")
WriteResponse(answer) ==
  /\ upPc = "write"
  /\ answer = "ok" => RemoteAccepts
  /\ answer = "conflict" => ~RemoteAccepts
  /\ LET file == upArgs.files[upIdx]
         content == base64Content(file.preview)
         logged == [upCalls EXCEPT ![Len(upCalls)] =
                      [op |-> "createOrUpdate", key |-> CurrentKey,
                       sha |-> upSha, answer |-> answer]]
         written == [content |-> content, sha |-> ShaOf(content)]
         results == Append(upResults, [key |-> CurrentKey, sha |-> ShaOf(content)])
     IN IF answer = "ok"
          THEN /\ store' = [k \in DOMAIN store \cup {CurrentKey} |->
                              IF k = CurrentKey THEN written ELSE store[k]]
               /\ MoveTo(upArgs,
                         LoopFrom(upArgs, upIdx + 1, results, logged,
                                  IF svcOctokit # Null THEN StartRefresh(rlInflight)
                                                       ELSE rlInflight,
                                  svcOctokit),
                         results)
        ELSE IF writeFailure(answer).rethrown
          THEN /\ store' = store
               /\ MoveTo(upArgs,
                         [pc |-> "idle", calls |-> logged, inflight |-> rlInflight,
                          client |-> svcOctokit,
                          outcome |-> writeFailure(answer).error],
                         upResults)
          ELSE /\ store' = store
               /\ MoveTo(upArgs,
                         LoopFrom(upArgs, upIdx + 1, upResults, logged, rlInflight,
                                  svcOctokit),
                         upResults)
  /\ lastCheck' = NoCheck
  /\ UNCHANGED <<now, rateLimits, lastUpdated, lsRateLimits>>

UploadStart == \E fp \in FolderPaths, fs \in FileLists : UploadCall(fp, fs)
UploadGetContent == \E a \in {"found", "notFound", "error"} : GetContentResponse(a)
UploadWrite == \E a \in {"ok", "conflict", "error"} : WriteResponse(a)

\* the quota a refresh reports while an upload runs: short of one file's
\* budget, or enough for a whole batch
RefreshAnswers == {PerFileBudget - 1, MaxRemaining}
UploadRefreshed ==
  \E c \in RefreshAnswers : UpdateRateLimitsResponse(1, c, ShortReset)
UploadTick == Tick(updateInterval)

NextUpload ==
  \/ UploadStart /\ UNCHANGED <<authVars, uiVars, ensVars, repoVars>>
  \/ UploadGetContent /\ UNCHANGED <<authVars, uiVars, ensVars, repoVars>>
  \/ UploadWrite /\ UNCHANGED <<authVars, uiVars, ensVars, repoVars>>
  \/ UploadRefreshed /\ UNCHANGED <<authVars, upVars, uiVars, ensVars, repoVars>>
  \/ RateFailure /\ UNCHANGED <<authVars, upVars, uiVars, ensVars, repoVars>>
  \/ UploadTick /\ UNCHANGED <<authVars, upVars, uiVars, ensVars, repoVars>>
  \/ SignOut /\ UNCHANGED <<rlVars, upVars, uiVars, ensVars, repoVars>>

InitSpecUpload == InitRate /\ AuthSignedIn /\ InitUpload /\ InitUI /\ EnsUnmounted /\ InitRepo

SpecUpload == InitSpecUpload /\ [][NextUpload]_vars

---------------------------------------------------------------------------
(* GitHubService.createRepository, and the service used while the          *)
(* credential store changes                                                *)

RepoBudget == 2        \* checkRateLimit('core', 2) of createRepository
NewRepoNames == {"cards", "assets"}
GitkeepPath == "og/.gitkeep"

\* the invocation of createRepository in progress ends with this outcome
CreateEnds(args, outcome, calls) ==
  /\ crPc' = "idle"
  /\ crCalls' = << >>
  /\ crDone' = Append(crDone, [args |-> args, outcome |-> outcome, calls |-> calls])

\* createRepository(repoName, isPrivate) up to its first await
CreateRepositoryCall(repoName, isPrivate) ==
  /\ crPc = "idle"
  /\ Len(crDone) < MaxCreates
  /\ svcOctokit' = getOctokit
  /\ LET chk == checkRateLimit("core", RepoBudget)
         args == [repoName |-> repoName, isPrivate |-> isPrivate]
     IN IF getOctokit = Null
          THEN CreateEnds(args, AuthRequired, << >>)
        ELSE IF chk.threw /\ IsRateLimitError(chk)
          THEN CreateEnds(args, [kind |-> "error", message |-> chk.message], << >>)
        ELSE /\ crPc' = "create"
             /\ crCalls' = <<[op |-> "createForAuthenticatedUser",
                              client |-> getOctokit,
                              owner |-> UserOf(getOctokit).login, name |-> repoName,
                              private |-> isPrivate]>>
             /\ crDone' = crDone
  /\ lastCheck' = NoCheck
  /\ UNCHANGED <<now, rateLimits, lastUpdated, lsRateLimits, rlInflight, store,
                 upPc, upArgs, upIdx, upSha, upResults, upCalls, upDone>>

\* createForAuthenticatedUser settles; the write of og/.gitkeep is issued
CreateForAuthenticatedUserResponse(answer) ==
  /\ crPc = "create"
  /\ LET args == [repoName |-> crCalls[1].name, isPrivate |-> crCalls[1].private]
         logged == <<[crCalls[1] EXCEPT !.op = "createForAuthenticatedUser:" \o answer]>>
     IN IF answer # "ok"
          THEN CreateEnds(args, [kind |-> "error", message |-> answer], logged)
        ELSE IF svcOctokit = Null
          THEN CreateEnds(args, NullClientError, logged)
        ELSE /\ crPc' = "gitkeep"
             /\ crCalls' = Append(logged,
                  [op |-> "createOrUpdate", client |-> svcOctokit,
                   owner |-> crCalls[1].owner, name |-> crCalls[1].name,
                   private |-> crCalls[1].private])
             /\ crDone' = crDone
  /\ UNCHANGED <<rlVars, store, svcOctokit, upPc, upArgs, upIdx, upSha, upResults,
                 upCalls, upDone>>

\* the write of og/.gitkeep settles; the returned object
GitkeepResponse(answer) ==
  /\ crPc = "gitkeep"
  /\ LET args == [repoName |-> crCalls[1].name, isPrivate |-> crCalls[1].private]
         key == StoreKey(crCalls[1].owner, crCalls[1].name, GitkeepPath)
     IN /\ answer = "ok" => key \notin DOMAIN store
        /\ answer = "conflict" => key \in DOMAIN store
        /\ IF answer = "ok"
             THEN /\ store' = [k \in DOMAIN store \cup {key} |->
                                 IF k = key THEN [content |-> "", sha |-> ShaOf("")]
                                 ELSE store[k]]
                  /\ rlInflight' = IF svcOctokit # Null THEN StartRefresh(rlInflight)
                                                        ELSE rlInflight
                  /\ CreateEnds(args,
                                [kind |-> "success", name |-> crCalls[1].name,
                                 owner |-> crCalls[1].owner,
                                 private |-> crCalls[1].private],
                                crCalls)
             ELSE /\ UNCHANGED <<store, rlInflight>>
                  /\ CreateEnds(args, [kind |-> "error", message |-> answer], crCalls)
  /\ lastCheck' = NoCheck
  /\ UNCHANGED <<now, rateLimits, lastUpdated, lsRateLimits, svcOctokit, upPc,
                 upArgs, upIdx, upSha, upResults, upCalls, upDone>>

RepoCreate == \E n \in NewRepoNames, p \in BOOLEAN : CreateRepositoryCall(n, p)
RepoCreated ==
  \E a \in {"ok", "error"} :
     /\ crPc = "create"
     /\ a = "ok" => crCalls[1].client \in ValidTokens
     /\ CreateForAuthenticatedUserResponse(a)
RepoGitkeep ==
  \E a \in {"ok", "error"} :
     /\ crPc = "gitkeep"
     /\ a = "ok" => crCalls[2].client \in ValidTokens
     /\ GitkeepResponse(a)

\* the uploads the service is asked for while the credential changes
HomePath == [username |-> "alice", repo |-> "assets", folder |-> "card"]
ServiceUpload ==
  /\ upDone = << >>
  /\ \E fs \in {f \in FileLists : f[2].preview = NoPreview} : UploadCall(HomePath, fs)
\* GitHub answers a request made with a token it does not accept with an error
ServiceGetContent ==
  \E a \in {"found", "notFound", "error"} :
     /\ a # "error" => svcOctokit \in ValidTokens
     /\ GetContentResponse(a)
ServiceWrite ==
  \E a \in {"ok", "error"} :
     /\ a = "ok" => svcOctokit \in ValidTokens
     /\ WriteResponse(a)
ServiceSetToken == \E t \in {"ghp_good", "ghp_bad"} : SetTokenCall(t)

NextService ==
  \/ ServiceSetToken /\ UNCHANGED <<rlVars, upVars, uiVars, ensVars, repoVars>>
  \/ AuthOk /\ UNCHANGED <<rlVars, upVars, uiVars, ensVars, repoVars>>
  \/ AuthFails /\ UNCHANGED <<rlVars, upVars, uiVars, ensVars, repoVars>>
  \/ SignOut /\ UNCHANGED <<rlVars, upVars, uiVars, ensVars, repoVars>>
  \/ ServiceUpload /\ UNCHANGED <<authVars, uiVars, ensVars, repoVars>>
  \/ ServiceGetContent /\ UNCHANGED <<authVars, uiVars, ensVars, repoVars>>
  \/ ServiceWrite /\ UNCHANGED <<authVars, uiVars, ensVars, repoVars>>
  \/ RepoCreate /\ UNCHANGED <<authVars, uiVars, ensVars, rdVars>>
  \/ RepoCreated /\ UNCHANGED <<authVars, uiVars, ensVars, rdVars>>
  \/ RepoGitkeep /\ UNCHANGED <<authVars, uiVars, ensVars, rdVars>>

InitSpecService == InitRate /\ InitAuth /\ InitUpload /\ InitUI /\ EnsUnmounted /\ InitRepo

SpecService == InitSpecService /\ [][NextService]_vars

---------------------------------------------------------------------------
(* The read methods of GitHubService: getUserRepositories,                 *)
(* getRepositoryInfo and getRepositoryContent.  Each guards on the cached  *)
(* client, awaits one request, then awaits updateRateLimits and returns    *)
(* the data of the request.                                                *)

ReadMethods == {"getUserRepositories", "getRepositoryInfo", "getRepositoryContent"}

NotAuthenticated == [kind |-> "error", message |-> "Not authenticated"]

refreshFailure_Rethrown == [threw |-> TRUE, result |-> FALSE]

\* the catch of updateRateLimits: the error is logged and false is returned
refreshFailure == [threw |-> FALSE, result |-> FALSE]

\* the read invocation in progress ends
ReadEnds(outcome, refresh) ==
  /\ rdPc' = "idle"
  /\ rdCall' = NoRead
  /\ rdDone' = Append(rdDone, [method |-> rdCall.method, outcome |-> outcome,
                               refresh |-> refresh])

\* a read method up to its await of the request
ReadCall(method) ==
  /\ rdPc = "idle"
  /\ Len(rdDone) < MaxReads
  /\ IF svcOctokit = Null
       THEN /\ rdDone' = Append(rdDone, [method |-> method,
                                         outcome |-> NotAuthenticated,
                                         refresh |-> "none"])
            /\ UNCHANGED <<rdPc, rdCall>>
       ELSE /\ rdPc' = "request"
            /\ rdCall' = [method |-> method, issued |-> 0]
            /\ rdDone' = rdDone
  /\ UNCHANGED <<rlVars, upVars, crPc, crCalls, crDone>>

\* the request settles; on success updateRateLimits(this.octokit) is awaited:
\* it returns at once without a client or inside the interval, and issues
\* rateLimit.get() otherwise
ReadResponse(answer) ==
  /\ rdPc = "request"
  /\ IF answer # "ok"
       THEN ReadEnds([kind |-> "error", message |-> answer], "none")
     ELSE IF svcOctokit = Null
       THEN ReadEnds([kind |-> "success"], "no client")
     ELSE IF ~updateRateLimitsIssues
       THEN ReadEnds([kind |-> "success"], "skipped")
     ELSE /\ rdPc' = "refresh"
          /\ rdCall' = [rdCall EXCEPT !.issued = now]
          /\ rdDone' = rdDone
  /\ lastCheck' = NoCheck
  /\ UNCHANGED <<now, rateLimits, lastUpdated, lsRateLimits, rlInflight, upVars,
                 crPc, crCalls, crDone>>

\* the awaited rateLimit.get() answers: the snapshot is replaced and saved
ReadRefreshResponse(coreRemaining, offset) ==
  /\ rdPc = "refresh"
  /\ LET limits == [r \in Resources |->
                      [remaining |-> IF r = "core" THEN coreRemaining
                                                    ELSE MaxRemaining - coreRemaining,
                       reset |-> nowSeconds + offset]]
     IN /\ rateLimits' = limits
        /\ lastUpdated' = rdCall.issued
        /\ lsRateLimits' = [rateLimits |-> limits, lastUpdated |-> rdCall.issued]
  /\ ReadEnds([kind |-> "success"], "ok")
  /\ lastCheck' = NoCheck
  /\ UNCHANGED <<now, rlInflight, upVars, crPc, crCalls, crDone>>

\* the awaited rateLimit.get() fails
ReadRefreshFailure ==
  /\ rdPc = "refresh"
  /\ IF refreshFailure.threw
       THEN ReadEnds([kind |-> "error", message |-> "rate limit request failed"],
                     "failed")
       ELSE ReadEnds([kind |-> "success"], "failed")
  /\ lastCheck' = NoCheck
  /\ UNCHANGED <<now, rateLimits, lastUpdated, lsRateLimits, rlInflight, upVars,
                 crPc, crCalls, crDone>>

ReadStart == \E mth \in ReadMethods : ReadCall(mth)
ReadSettles == \E a \in {"ok", "error"} : ReadResponse(a)
ReadRefreshed == \E c \in RefreshAnswers : ReadRefreshResponse(c, ShortReset)
ReadsUpload ==
  /\ upDone = << >>
  /\ \E fs \in {f \in FileLists : f[2].preview = NoPreview} : UploadCall(HomePath, fs)
ReadsGetContent == \E a \in {"found", "notFound"} : GetContentResponse(a)
ReadsWrite == \E a \in {"ok", "error"} : WriteResponse(a)

NextReads ==
  \/ ReadStart /\ UNCHANGED <<authVars, uiVars, ensVars>>
  \/ ReadSettles /\ UNCHANGED <<authVars, uiVars, ensVars>>
  \/ ReadRefreshed /\ UNCHANGED <<authVars, uiVars, ensVars>>
  \/ ReadRefreshFailure /\ UNCHANGED <<authVars, uiVars, ensVars>>
  \/ ReadsUpload /\ UNCHANGED <<authVars, uiVars, ensVars, repoVars>>
  \/ ReadsGetContent /\ UNCHANGED <<authVars, uiVars, ensVars, repoVars>>
  \/ ReadsWrite /\ UNCHANGED <<authVars, uiVars, ensVars, repoVars>>
  \/ UploadRefreshed /\ UNCHANGED <<authVars, upVars, uiVars, ensVars, repoVars>>
  \/ RateFailure /\ UNCHANGED <<authVars, upVars, uiVars, ensVars, repoVars>>
  \/ UploadTick /\ UNCHANGED <<authVars, upVars, uiVars, ensVars, repoVars>>
  \/ SignOut /\ UNCHANGED <<rlVars, upVars, uiVars, ensVars, repoVars>>

InitSpecReads == InitRate /\ AuthSignedIn /\ InitUpload /\ InitUI /\ EnsUnmounted /\ InitRepo

SpecReads == InitSpecReads /\ [][NextReads]_vars

---------------------------------------------------------------------------
(* The wizard: Index, FileUpload and PreviewCard                           *)

Urls == {"", "https://img.example/a.png"}

\* the repositories the remote lists for the user, and whether each is private
RemotePrivate == [assets |-> FALSE, secret |-> TRUE]
RepoNames == {"assets", "secret"}
RepoLists == {<<"assets", "secret">>, <<"secret", "assets">>}

\* files.map(item => item.name === name ? { ...item, preview } : item)
withPreview(files, slot, preview) == [files EXCEPT ![slot].preview = preview]

\* a validation that finds nothing missing
missingFiles_None(files) == {}

\* ['inner','outer','overlay'].filter(name => !files.some(f => f.name === name && f.preview))
missingFiles(files) ==
  {i \in 1..3 : ~\E j \in DOMAIN files :
                    files[j].name = SlotNames[i] /\ files[j].preview # NoPreview}

\* Index's effect: previewData is set once files is not empty
previewDataSet == Len(idxFiles) > 0

\* the slots of a file list that hold a preview
withPreviews(files) == {i \in DOMAIN files : files[i].preview # NoPreview}

\* FileUpload.handleUrlChange(name, url): the timer of the slot is replaced;
\* its callback holds the loadImageUrl of this render, which closes over files
HandleUrlChange(slot, url) ==
  /\ activeStep = 0
  /\ fuFiles[slot].preview = NoPreview
  /\ LET timers == {t \in fuTimers : t.slot # slot}
                     \cup {[slot |-> slot, url |-> url, files |-> fuFiles]}
     IN /\ Cardinality(timers) + Cardinality(fuLoads) <= MaxPending
        /\ fuTimers' = timers
  /\ uiEdits < MaxEdits
  /\ uiEdits' = uiEdits + 1
  /\ UNCHANGED <<idxVars, fuFiles, fuLoads, pcVars>>

\* the debounce timer fires: loadImageUrl(name, url) up to its first await
TimerFires(t) ==
  /\ t \in fuTimers
  /\ fuTimers' = fuTimers \ {t}
  /\ IF t.url = ""
       THEN /\ fuFiles' = withPreview(t.files, t.slot, NoPreview)
            /\ idxFiles' = withPreview(t.files, t.slot, NoPreview)
            /\ fuLoads' = fuLoads
       ELSE /\ fuLoads' = fuLoads \cup {[slot |-> t.slot, files |-> t.files,
                                         mounted |-> TRUE]}
            /\ UNCHANGED <<fuFiles, idxFiles>>
  /\ UNCHANGED <<activeStep, idxFolderPath, pcVars, uiEdits>>

\* loadImageUrl after validateImageUrl and the fetch settle: setFiles (of the
\* component that started the load, if still mounted) and onFilesChange
LoadSettles(l, loaded) ==
  /\ l \in fuLoads
  /\ fuLoads' = fuLoads \ {l}
  /\ IF loaded
       THEN LET updatedFiles == withPreview(l.files, l.slot, DataUrl(SlotNames[l.slot]))
            IN /\ fuFiles' = IF l.mounted THEN updatedFiles ELSE fuFiles
               /\ idxFiles' = updatedFiles
       ELSE UNCHANGED <<fuFiles, idxFiles>>
  /\ UNCHANGED <<activeStep, idxFolderPath, fuTimers, pcVars, uiEdits>>

\* FileUpload.clearUrl(name)
ClearUrl(slot) ==
  /\ activeStep = 0
  /\ fuFiles[slot].preview # NoPreview
  /\ fuFiles' = withPreview(fuFiles, slot, NoPreview)
  /\ idxFiles' = withPreview(fuFiles, slot, NoPreview)
  /\ UNCHANGED <<activeStep, idxFolderPath, fuTimers, fuLoads, pcVars, uiEdits>>

\* PreviewCard's state when it is not mounted
PreviewCardGone ==
  /\ pcFolderPath' = NoFolderPath
  /\ pcIsAuth' = FALSE
  /\ pcRepos' = << >>
  /\ pcLoadRepos' = {}
  /\ pcChecks' = {}
  /\ pcDialog' = FALSE
  /\ pcUploadLoading' = FALSE
  /\ pcUploadSuccess' = FALSE
  /\ pcWarning' = FALSE

\* PreviewCard mounts: its useState initial values, GitHubLogin's effect
\* reporting the session, and the effect that loads the repositories
PreviewCardMounts ==
  /\ pcFolderPath' = NewFolderPath
  /\ pcIsAuth' = isAuthenticated
  /\ pcRepos' = << >>
  /\ pcLoadRepos' = IF isAuthenticated THEN {NewFolderPath} ELSE {}
  /\ pcChecks' = {}
  /\ pcDialog' = FALSE
  /\ pcUploadLoading' = FALSE
  /\ pcUploadSuccess' = FALSE
  /\ pcWarning' = FALSE

\* setActiveStep(step): the component of the old step unmounts (FileUpload's
\* cleanup clears its timers; loads in flight keep running), the new mounts
GoToStep(step) ==
  /\ step # activeStep
  /\ activeStep' = step
  /\ IF activeStep = 0
       THEN /\ fuFiles' = EmptyFiles
            /\ fuTimers' = {}
            /\ fuLoads' = {[l EXCEPT !.mounted = FALSE] : l \in fuLoads}
       ELSE UNCHANGED fuVars
  /\ IF step = 1 THEN PreviewCardMounts
     ELSE IF activeStep = 1 THEN PreviewCardGone
     ELSE UNCHANGED pcVars
  /\ UNCHANGED <<idxFiles, idxFolderPath, uiEdits>>

\* Index.handleNext
HandleNext ==
  /\ ~pcDialog
  /\ activeStep < 2
  /\ IF activeStep = 0 /\ missingFiles(idxFiles) # {}
       THEN UNCHANGED vars
     ELSE IF activeStep = 1 /\ (idxFolderPath.username = "" \/ idxFolderPath.repo = "")
       THEN UNCHANGED vars
     ELSE GoToStep(activeStep + 1)

\* Index.handleBack
HandleBack ==
  /\ ~pcDialog
  /\ activeStep > 0
  /\ GoToStep(activeStep - 1)

\* StepWizard: onClick={() => index <= activeStep && onStepChange(index)};
\* Start Over is the click on step 0 from the last step
StepClick(index) ==
  /\ ~pcDialog
  /\ index <= activeStep
  /\ GoToStep(index)

\* a getRepositoryInfo call may start: the model keeps at most MaxChecks
CanCheck == Cardinality(pcChecks) < MaxChecks

\* PreviewCard.loadRepositories after getUserRepositories settles
LoadRepositoriesSettles(closure, repos, failed) ==
  /\ closure \in pcLoadRepos
  /\ pcLoadRepos' = pcLoadRepos \ {closure}
  /\ IF failed
       THEN UNCHANGED <<pcRepos, pcFolderPath, idxFolderPath>>
       ELSE /\ pcRepos' = repos
            /\ LET login == IF user = NoUser THEN "" ELSE user.login
               IN /\ pcFolderPath' = [pcFolderPath EXCEPT !.username = login,
                                                          !.repo = repos[1]]
                  /\ idxFolderPath' = [closure EXCEPT !.username = login,
                                                      !.repo = repos[1]]
  /\ UNCHANGED <<activeStep, idxFiles, fuVars, uiEdits, pcIsAuth, pcChecks, pcDialog,
                 pcUploadLoading, pcUploadSuccess, pcWarning>>

\* PreviewCard.handlePathChange(field, value), from the repository Select
\* or the folder input (which the user may also clear)
HandlePathChange(field, value) ==
  /\ activeStep = 1
  /\ ~pcDialog
  /\ pcIsAuth
  /\ field = "repo" => /\ pcLoadRepos = {}
                       /\ \E i \in DOMAIN pcRepos : pcRepos[i] = value
  /\ field = "folder" => value \in Folders \cup {""}
  /\ LET newPath == [pcFolderPath EXCEPT ![field] = value]
     IN /\ pcFolderPath' = newPath
        /\ idxFolderPath' = newPath
        /\ IF field = "repo" /\ newPath.username # "" /\ newPath.repo # ""
             THEN /\ CanCheck
                  /\ pcChecks' = pcChecks \cup
                       {[kind |-> "select", username |-> newPath.username,
                         repo |-> newPath.repo]}
             ELSE pcChecks' = pcChecks
  /\ UNCHANGED <<activeStep, idxFiles, fuVars, uiEdits, pcIsAuth, pcRepos, pcLoadRepos,
                 pcDialog, pcUploadLoading, pcUploadSuccess, pcWarning>>

\* the Upload button's disabled attribute
uploadButtonDisabled ==
  \/ ~previewDataSet
  \/ pcFolderPath.username = ""
  \/ pcFolderPath.repo = ""
  \/ pcUploadSuccess
  \/ ~pcIsAuth

\* PreviewCard.handleUploadToGitHub up to its await
HandleUploadToGitHub ==
  /\ activeStep = 1
  /\ ~pcDialog
  /\ ~uploadButtonDisabled
  /\ IF missingFiles(idxFiles) # {}
       THEN pcChecks' = pcChecks        \* toast "Missing files"
     ELSE IF pcFolderPath.username = "" \/ pcFolderPath.repo = ""
       THEN pcChecks' = pcChecks        \* toast "Missing repository details"
     ELSE IF svcOctokit = Null
       THEN pcChecks' = pcChecks        \* toast "Repository Check Failed"
     ELSE /\ CanCheck
          /\ pcChecks' = pcChecks \cup
               {[kind |-> "upload", username |-> pcFolderPath.username,
                 repo |-> pcFolderPath.repo]}
  /\ UNCHANGED <<idxVars, fuVars, uiEdits, pcFolderPath, pcIsAuth, pcRepos, pcLoadRepos,
                 pcDialog, pcUploadLoading, pcUploadSuccess, pcWarning>>

\* getRepositoryInfo settles (repos.get answered or failed; the tracker
\* refresh it awaits changes no UI state) and the caller goes on:
\* checkRepositoryVisibility for a selection, handleUploadToGitHub for a click
CheckSettles(c, failed) ==
  /\ c \in pcChecks
  /\ pcChecks' = pcChecks \ {c}
  /\ LET private == RemotePrivate[c.repo]
     IN IF c.kind = "select"
          THEN /\ pcWarning' = IF failed THEN pcWarning ELSE private
               /\ pcDialog' = pcDialog
          ELSE /\ pcWarning' = IF failed THEN pcWarning ELSE private
               /\ pcDialog' = IF ~failed /\ ~private THEN TRUE ELSE pcDialog
  /\ UNCHANGED <<idxVars, fuVars, uiEdits, pcFolderPath, pcIsAuth, pcRepos, pcLoadRepos,
                 pcUploadLoading, pcUploadSuccess>>

\* the dialog's Cancel button, or a click outside it
DialogCancel ==
  /\ pcDialog
  /\ pcDialog' = FALSE
  /\ UNCHANGED <<idxVars, fuVars, uiEdits, pcFolderPath, pcIsAuth, pcRepos, pcLoadRepos,
                 pcChecks, pcUploadLoading, pcUploadSuccess, pcWarning>>

\* handleConfirmUpload after `await uploadOgCardAssets` once the invocation
\* has settled in this step: success closes the dialog, an error is toasted
AfterUpload(awaiting) ==
  IF upPc' = "idle" /\ awaiting
    THEN LET outcome == upDone'[Len(upDone')].outcome
         IN /\ pcUploadLoading' = FALSE
            /\ IF outcome.kind = "success" /\ outcome.success
                 THEN /\ pcUploadSuccess' = TRUE
                      /\ pcDialog' = FALSE
                 ELSE UNCHANGED <<pcUploadSuccess, pcDialog>>
    ELSE /\ pcUploadLoading' = awaiting
         /\ UNCHANGED <<pcUploadSuccess, pcDialog>>

\* PreviewCard.handleConfirmUpload: uploadOgCardAssets(folderPath, files)
\* with the folderPath and the files of the render the click lands on
HandleConfirmUpload ==
  /\ pcDialog
  /\ ~pcUploadLoading
  /\ Len(upDone) < MaxUiRuns
  /\ UploadCall(pcFolderPath, idxFiles)
  /\ AfterUpload(TRUE)
  /\ UNCHANGED <<idxVars, fuVars, uiEdits, pcFolderPath, pcIsAuth, pcRepos, pcLoadRepos,
                 pcChecks, pcWarning>>

\* a remote call of the running invocation settles
UiGetContent ==
  /\ \E a \in {"found", "notFound"} : GetContentResponse(a)
  /\ AfterUpload(pcUploadLoading)
  /\ UNCHANGED <<idxVars, fuVars, uiEdits, pcFolderPath, pcIsAuth, pcRepos, pcLoadRepos,
                 pcChecks, pcWarning>>

UiWrite ==
  /\ \E a \in {"ok", "error"} : WriteResponse(a)
  /\ AfterUpload(pcUploadLoading)
  /\ UNCHANGED <<idxVars, fuVars, uiEdits, pcFolderPath, pcIsAuth, pcRepos, pcLoadRepos,
                 pcChecks, pcWarning>>

UiUrlChange == \E slot \in 1..3, url \in Urls : HandleUrlChange(slot, url)
UiTimerFires == \E t \in fuTimers : TimerFires(t)
UiLoadSettles == \E l \in fuLoads, loaded \in BOOLEAN : LoadSettles(l, loaded)
UiClearUrl == \E slot \in 1..3 : ClearUrl(slot)
UiStepClick == \E index \in 0..2 : StepClick(index)
UiReposLoaded ==
  \E closure \in pcLoadRepos, repos \in RepoLists, failed \in BOOLEAN :
     LoadRepositoriesSettles(closure, repos, failed)
UiPathChange ==
  \E field \in {"repo", "folder"}, value \in RepoNames \cup {""} :
     HandlePathChange(field, value)
UiCheckSettles == \E c \in pcChecks, failed \in BOOLEAN : CheckSettles(c, failed)

\* pcCheckedRepo follows the dialog: when a step opens it, the check that
\* settled in that step is noted; when it is closed, the note is dropped
DialogOpenedBy ==
  pcCheckedRepo' =
    IF ~pcDialog /\ pcDialog'
      THEN LET c == CHOOSE c \in pcChecks \ pcChecks' : TRUE
           IN [username |-> c.username, repo |-> c.repo]
    ELSE IF ~pcDialog' THEN NoRepoChecked
    ELSE pcCheckedRepo

NextUI ==
  \/ UiUrlChange /\ UNCHANGED <<rlVars, authVars, upVars, ensVars, repoVars, fuOverlap>> /\ DialogOpenedBy
  \/ UiTimerFires /\ UNCHANGED <<rlVars, authVars, upVars, ensVars, repoVars, fuOverlap>> /\ DialogOpenedBy
  \/ UiLoadSettles /\ UNCHANGED <<rlVars, authVars, upVars, ensVars, repoVars, fuOverlap>> /\ DialogOpenedBy
  \/ UiClearUrl /\ UNCHANGED <<rlVars, authVars, upVars, ensVars, repoVars, fuOverlap>> /\ DialogOpenedBy
  \/ HandleNext /\ UNCHANGED <<rlVars, authVars, upVars, ensVars, repoVars, fuOverlap>> /\ DialogOpenedBy
  \/ HandleBack /\ UNCHANGED <<rlVars, authVars, upVars, ensVars, repoVars, fuOverlap>> /\ DialogOpenedBy
  \/ UiStepClick /\ UNCHANGED <<rlVars, authVars, upVars, ensVars, repoVars, fuOverlap>> /\ DialogOpenedBy
  \/ UiReposLoaded /\ UNCHANGED <<rlVars, authVars, upVars, ensVars, repoVars, fuOverlap>> /\ DialogOpenedBy
  \/ UiPathChange /\ UNCHANGED <<rlVars, authVars, upVars, ensVars, repoVars, fuOverlap>> /\ DialogOpenedBy
  \/ HandleUploadToGitHub /\ UNCHANGED <<rlVars, authVars, upVars, ensVars, repoVars, fuOverlap>> /\ DialogOpenedBy
  \/ UiCheckSettles /\ UNCHANGED <<rlVars, authVars, upVars, ensVars, repoVars, fuOverlap>> /\ DialogOpenedBy
  \/ DialogCancel /\ UNCHANGED <<rlVars, authVars, upVars, ensVars, repoVars, fuOverlap>> /\ DialogOpenedBy
  \/ HandleConfirmUpload /\ UNCHANGED <<authVars, ensVars, repoVars, fuOverlap>> /\ DialogOpenedBy
  \/ UiGetContent /\ UNCHANGED <<authVars, ensVars, repoVars, fuOverlap>> /\ DialogOpenedBy
  \/ UiWrite /\ UNCHANGED <<authVars, ensVars, repoVars, fuOverlap>> /\ DialogOpenedBy

InitSpecUI == InitRate /\ AuthSignedIn /\ InitUpload /\ InitUI /\ EnsUnmounted /\ InitRepo

SpecUI == InitSpecUI /\ [][NextUI]_vars

---------------------------------------------------------------------------
(* FileUpload alone, on step 0: URL edits, debounce timers and image loads. *)
(* fuOverlap notes, for a load in flight, the slots whose load succeeded    *)
(* while it was in flight and whose preview the user has not cleared since. *)

LoadsUrlChange ==
  /\ \E slot \in 1..3, url \in Urls : HandleUrlChange(slot, url)
  /\ UNCHANGED fuOverlap

LoadsTimerFires ==
  \E t \in fuTimers :
     /\ TimerFires(t)
     /\ fuOverlap' = IF t.url = "" THEN {o \in fuOverlap : o.done # t.slot}
                                   ELSE fuOverlap

LoadsSettle ==
  \E l \in fuLoads, loaded \in BOOLEAN :
     /\ LoadSettles(l, loaded)
     /\ fuOverlap' = {o \in fuOverlap : o.load # l} \cup
                       IF loaded
                         THEN {[load |-> m, done |-> l.slot] :
                                 m \in {n \in fuLoads \ {l} : n.slot # l.slot}}
                         ELSE {}

LoadsClearUrl ==
  \E slot \in 1..3 :
     /\ ClearUrl(slot)
     /\ fuOverlap' = {o \in fuOverlap : o.done # slot}

NextLoads ==
  \/ LoadsUrlChange /\ UNCHANGED <<rlVars, authVars, upVars, ensVars, repoVars, pcCheckedRepo>>
  \/ LoadsTimerFires /\ UNCHANGED <<rlVars, authVars, upVars, ensVars, repoVars, pcCheckedRepo>>
  \/ LoadsSettle /\ UNCHANGED <<rlVars, authVars, upVars, ensVars, repoVars, pcCheckedRepo>>
  \/ LoadsClearUrl /\ UNCHANGED <<rlVars, authVars, upVars, ensVars, repoVars, pcCheckedRepo>>

InitSpecLoads == InitRate /\ AuthSignedIn /\ InitUpload /\ InitUI /\ EnsUnmounted /\ InitRepo

SpecLoads == InitSpecLoads /\ [][NextLoads]_vars

---------------------------------------------------------------------------
(* The ENS record update: EnsUpdater, JsonEditor and ENSService            *)

\* an entry of ensWritten: the path that wrote, the existing record the
\* update merged into, the og section it was given, and the value written
Written(path, existing, og, value) ==
  [path |-> path, existing |-> existing, og |-> og, value |-> value]

\* ENSService.getTextRecord: the record, or null when the read failed
getTextRecord(answer) == IF answer = "value" THEN ensRemote ELSE NoText

constructUpdatedJson_Fresh(existingData) ==
  [threw |-> FALSE,
   value |-> JSONstringify(ObjectDoc([NoMembers EXCEPT
                                        !["og"] = JsOg(previewUrl, undefined)]))]

\* EnsUpdater.constructUpdatedJson(): the text it returns, or that it threw
constructUpdatedJson(existingData) ==
  LET parsed == JSONparse(existingData)
      updatedData == IF existingData.form # "none" /\ ~parsed.threw
                     THEN parsed.value ELSE ObjectDoc(NoMembers)
  IN IF readThrows(updatedData) \/ assignThrows(updatedData)
     THEN [threw |-> TRUE, value |-> NoText]
     ELSE [threw |-> FALSE,
           value |-> JSONstringify(
              [updatedData EXCEPT
                 !.members["og"] = mergeOg(readOg(updatedData), previewUrl)])]

\* ENSService.updateOgCardRecord: the text it passes to setTextRecord, or
\* that building it threw (caught: the method returns false)
updateOgCardRecord(existingRecordStr, record) ==
  LET parsed == JSONparse(existingRecordStr)
      existingRecord == IF existingRecordStr.form # "none" /\ ~parsed.threw
                        THEN parsed.value ELSE ObjectDoc(NoMembers)
  IN IF readThrows(record)
     THEN [threw |-> TRUE, value |-> NoText]
     ELSE [threw |-> FALSE,
           value |-> JSONstringify(
              ObjectDoc([spread(existingRecord) EXCEPT !["og"] = readOg(record)]))]

\* EnsUpdater.processEnsName(ensName), run by the debounce effect from its
\* start to its end while no other lookup is pending or running: the state
\* is reset, then the JustaName API answers with the records of the name, or
\* the fallback resolver is chosen, or the name is rejected
ProcessEnsName(outcome) ==
  /\ ~euSigning
  /\ euEnsName # "" /\ euTimer = Null
  /\ \A l \in 1..Len(euLookups) : euLookups[l].pc = "done"
  /\ outcome = "invalid" <=> ~includesDot(cleanName(euEnsName))
  /\ euNodeHash' = IF outcome = "invalid" THEN Null
                   ELSE namehash(normalize(cleanName(euEnsName)))
  /\ euResolver' = CASE outcome = "justaname" -> ApiResolver(cleanName(euEnsName))
                      [] outcome = "fallback" -> fallbackResolver(cleanName(euEnsName))
                      [] OTHER -> Null
  /\ euIsJustaname' = (outcome = "justaname")
  /\ euExistingData' = IF outcome = "justaname" THEN ensRemote ELSE NoText
  /\ UNCHANGED <<ensRemote, previewData, ensWritten, euSigning, euSignedValue,
                 euEnsName, euTimer,
                 euLookups, jeVars>>

\* EnsUpdater: the effect on the record useReadContract fetched
RecordRead(answer) ==
  /\ euResolver # Null /\ euNodeHash # Null
  /\ euExistingData' = IF answer = "value" /\ ensRemote.form # "none"
                       THEN trim(ensRemote) ELSE euExistingData
  /\ UNCHANGED <<ensRemote, previewData, ensWritten, euResolver, euIsJustaname,
                 euSigning, euSignedValue, lkVars, jeVars>>

\* EnsUpdater.fetchRecordsFromJustaname(ensName), as the refresh button and
\* the timer after a gasless update call it
FetchRecordsFromJustaname(answer) ==
  /\ euResolver # Null /\ euIsJustaname
  /\ euExistingData' = IF answer = "value" /\ ensRemote.form # "none"
                       THEN ensRemote ELSE euExistingData
  /\ UNCHANGED <<ensRemote, previewData, ensWritten, euResolver, euIsJustaname,
                 euSigning, euSignedValue, lkVars, jeVars>>

\* EnsUpdater.handleUpdateContract(): setText is sent with the merged text
\* and is mined or not
HandleUpdateContract(mined) ==
  /\ euResolver # Null /\ ~euIsJustaname
  /\ previewUrl # ""
  /\ Len(ensWritten) < MaxWrites
  /\ LET updatedValue == constructUpdatedJson(euExistingData)
     IN IF ~updatedValue.threw /\ mined
        THEN /\ ensRemote' = updatedValue.value
             /\ ensWritten' = Append(ensWritten,
                  Written("contract", euExistingData,
                          JsOg(previewUrl, undefined), updatedValue.value))
        ELSE UNCHANGED <<ensRemote, ensWritten>>
  /\ UNCHANGED <<previewData, euVars, jeVars>>

\* EnsUpdater.handleUpdateViaJustaname(): the message is built and the
\* signature requested
HandleUpdateViaJustaname ==
  /\ euResolver # Null /\ euIsJustaname /\ ~euSigning
  /\ previewUrl # ""
  /\ Len(ensWritten) < MaxWrites
  /\ ~constructUpdatedJson(euExistingData).threw
  /\ euSigning' = TRUE
  /\ euSignedValue' = constructUpdatedJson(euExistingData).value
  /\ UNCHANGED <<ensRemote, previewData, ensWritten, euExistingData, euResolver,
                 euIsJustaname, lkVars, jeVars>>

\* EnsUpdater: the signature arrives and the effect posts the merged text to
\* the JustaName API, which stores it or rejects it; or signing fails
SignatureSettles(outcome) ==
  /\ euSigning
  /\ Len(ensWritten) < MaxWrites
  /\ LET updatedValue == constructUpdatedJson(euExistingData)
     IN IF outcome = "stored" /\ ~updatedValue.threw
        THEN /\ ensRemote' = updatedValue.value
             /\ ensWritten' = Append(ensWritten,
                  Written("justaname", euExistingData,
                          JsOg(previewUrl, undefined), updatedValue.value))
        ELSE UNCHANGED <<ensRemote, ensWritten>>
  /\ euSigning' = FALSE
  /\ euSignedValue' = NoText
  /\ UNCHANGED <<previewData, euExistingData, euResolver, euIsJustaname, lkVars,
                 jeVars>>

\* JsonEditor: the fetchRecords effect for a connected wallet
FetchRecords(name, answer) ==
  /\ jeEnsName' = (name = "found")
  /\ LET record == getTextRecord(answer)
         parsed == JSONparse(record)
     IN jeEnsRecord' =
          IF name = "found" /\ record.form # "none" /\ ~parsed.threw
             /\ ~readThrows(parsed.value)
          THEN ObjectDoc([spread(parsed.value) EXCEPT
                 !["og"] = IF previewUrl # ""
                           THEN mergeOg(readOg(parsed.value), previewUrl)
                           ELSE readOg(parsed.value)])
          ELSE IF previewUrl # "" THEN defaultRecord ELSE jeEnsRecord
  /\ UNCHANGED <<ensRemote, previewData, ensWritten, euVars>>

\* JsonEditor.handleJsonChange(e)
HandleJsonChange(text) ==
  /\ jeEnsRecord' = IF JSONparse(text).threw THEN jeEnsRecord
                    ELSE JSONparse(text).value
  /\ UNCHANGED <<ensRemote, previewData, ensWritten, euVars, jeEnsName>>

\* JsonEditor.handleUpdateENS(): updateOgCardRecord reads the record, merges
\* and calls setTextRecord, which writes or fails
HandleUpdateENS(answer, written) ==
  /\ jeEnsName
  /\ Len(ensWritten) < MaxWrites
  /\ LET existingRecordStr == getTextRecord(answer)
         updated == updateOgCardRecord(existingRecordStr, jeEnsRecord)
     IN IF ~updated.threw /\ written
        THEN /\ ensRemote' = updated.value
             /\ ensWritten' = Append(ensWritten,
                  Written("updateOgCardRecord", existingRecordStr,
                          readOg(jeEnsRecord), updated.value))
        ELSE UNCHANGED <<ensRemote, ensWritten>>
  /\ UNCHANGED <<previewData, euVars, jeVars>>

ReadAnswers == {"value", "failed"}

EnsProcessName == \E outcome \in {"justaname", "fallback", "invalid"} :
                     ProcessEnsName(outcome)
EnsRecordRead == \E answer \in ReadAnswers : RecordRead(answer)
EnsRefresh == \E answer \in ReadAnswers : FetchRecordsFromJustaname(answer)
EnsUpdateContract == \E mined \in BOOLEAN : HandleUpdateContract(mined)
EnsSignature == \E outcome \in {"stored", "rejected", "signError"} :
                   SignatureSettles(outcome)
EnsFetchRecords == \E name \in {"found", "none"}, answer \in ReadAnswers :
                      FetchRecords(name, answer)
EnsJsonChange == \E text \in EditTexts : HandleJsonChange(text)
EnsUpdateENS == \E answer \in ReadAnswers, written \in BOOLEAN :
                   HandleUpdateENS(answer, written)

NextEns ==
  \/ EnsProcessName /\ UNCHANGED <<rlVars, authVars, upVars, uiVars, repoVars>>
  \/ EnsRecordRead /\ UNCHANGED <<rlVars, authVars, upVars, uiVars, repoVars>>
  \/ EnsRefresh /\ UNCHANGED <<rlVars, authVars, upVars, uiVars, repoVars>>
  \/ EnsUpdateContract /\ UNCHANGED <<rlVars, authVars, upVars, uiVars, repoVars>>
  \/ HandleUpdateViaJustaname /\ UNCHANGED <<rlVars, authVars, upVars, uiVars, repoVars>>
  \/ EnsSignature /\ UNCHANGED <<rlVars, authVars, upVars, uiVars, repoVars>>
  \/ EnsFetchRecords /\ UNCHANGED <<rlVars, authVars, upVars, uiVars, repoVars>>
  \/ EnsJsonChange /\ UNCHANGED <<rlVars, authVars, upVars, uiVars, repoVars>>
  \/ EnsUpdateENS /\ UNCHANGED <<rlVars, authVars, upVars, uiVars, repoVars>>

InitSpecEns == InitRate /\ AuthSignedIn /\ InitUpload /\ InitUI /\ InitEns /\ InitRepo

SpecEns == InitSpecEns /\ [][NextEns]_vars

---------------------------------------------------------------------------
(* EnsUpdater: the name input, the debounce effect and processEnsName with *)
(* its awaits                                                              *)

\* a processEnsName invocation: the strategies it has tried, whether the
\* JustaName API answered with data, and the resolver it has set
Lookup(name, pc, provider, tried, fetched, resolver) ==
  [name |-> name, pc |-> pc, provider |-> provider, tried |-> tried,
   fetched |-> fetched, resolver |-> resolver]

\* the name input changes: setEnsName, then the debounce effect (and the
\* cleanup of the one before it)
HandleNameChange(name) ==
  /\ ~euSigning
  /\ name # euEnsName
  /\ euEnsName' = name
  /\ IF name = ""
       THEN /\ euTimer' = Null
            /\ euResolver' = Null /\ euNodeHash' = Null
            /\ euExistingData' = NoText /\ euIsJustaname' = FALSE
       ELSE /\ euTimer' = name
            /\ UNCHANGED <<euResolver, euNodeHash, euExistingData, euIsJustaname>>
  /\ UNCHANGED <<ensRemote, previewData, ensWritten, euSigning, euSignedValue,
                 euLookups, jeVars>>

\* the debounce timer fires: processEnsName(name) up to its first await
DebounceFires ==
  /\ euTimer # Null
  /\ Len(euLookups) < MaxLookups
  /\ euTimer' = Null
  /\ euExistingData' = NoText
  /\ euIsJustaname' = FALSE
  /\ euResolver' = Null
  /\ LET clean == cleanName(euTimer)
     IN IF ~includesDot(clean)
          THEN /\ euNodeHash' = Null
               /\ euLookups' = Append(euLookups,
                    Lookup(euTimer, "done", 0, << >>, FALSE, Null))
          ELSE /\ euNodeHash' = namehash(normalize(clean))
               /\ euLookups' = Append(euLookups,
                    Lookup(euTimer, "fetch", 1, <<"justaname">>, FALSE, Null))
  /\ UNCHANGED <<ensRemote, previewData, ensWritten, euSigning, euSignedValue,
                 euEnsName, jeVars>>

\* the JustaName API answers the request of lookup l: with data holding a
\* me.yodl text ("record"), with data without one ("data"), or with nothing
\* usable (an error status, no data, a network error)
JustanameAnswers(l, answer) ==
  /\ l \in 1..Len(euLookups)
  /\ euLookups[l].pc = "fetch"
  /\ LET lk == euLookups[l]
         clean == cleanName(lk.name)
     IN IF answer # "nothing"
          THEN /\ euIsJustaname' = TRUE
               /\ euExistingData' = IF answer = "record" THEN ApiRecord(clean)
                                                        ELSE euExistingData
               /\ IF fallbackNeeded(TRUE)
                    THEN /\ euResolver' = fallbackResolver(clean)
                         /\ euLookups' = [euLookups EXCEPT ![l] =
                              Lookup(lk.name, "done", lk.provider,
                                     Append(lk.tried,
                                            IF isYodlDomain(clean) THEN "yodl"
                                                                   ELSE "public"),
                                     TRUE, fallbackResolver(clean))]
                    ELSE /\ euResolver' = ApiResolver(clean)
                         /\ euLookups' = [euLookups EXCEPT ![l] =
                              Lookup(lk.name, "done", lk.provider, lk.tried, TRUE,
                                     ApiResolver(clean))]
        ELSE IF lk.provider < Providers
          THEN /\ euLookups' = [euLookups EXCEPT ![l] =
                    Lookup(lk.name, "fetch", lk.provider + 1,
                           Append(lk.tried, "justaname"), FALSE, Null)]
               /\ UNCHANGED <<euIsJustaname, euExistingData, euResolver>>
        ELSE IF fallbackNeeded(FALSE)
          THEN /\ euResolver' = fallbackResolver(clean)
               /\ euLookups' = [euLookups EXCEPT ![l] =
                    Lookup(lk.name, "done", lk.provider,
                           Append(lk.tried, IF isYodlDomain(clean) THEN "yodl"
                                                                   ELSE "public"),
                           FALSE, fallbackResolver(clean))]
               /\ UNCHANGED <<euIsJustaname, euExistingData>>
          ELSE /\ euLookups' = [euLookups EXCEPT ![l] =
                    Lookup(lk.name, "done", lk.provider, lk.tried, FALSE, Null)]
               /\ UNCHANGED <<euIsJustaname, euExistingData, euResolver>>
  /\ UNCHANGED <<ensRemote, previewData, ensWritten, euSigning, euSignedValue,
                 euEnsName,
                 euNodeHash, euTimer, jeVars>>

\* the text a resolver returns for a node: the record of the name when the
\* resolver is one of that name, nothing otherwise
resolverText(resolver, node) ==
  IF \E n \in Names : /\ node = namehash(normalize(cleanName(n)))
                      /\ resolver \in {ApiResolver(cleanName(n)),
                                       fallbackResolver(cleanName(n))}
  THEN ChainRecord(CHOOSE c \in {cleanName(n) : n \in Names} :
                     node = namehash(normalize(c)))
  ELSE NoText

\* useReadContract for the resolver and node of the current render, and the
\* effect on the record it fetched
ContractRead(answer) ==
  /\ euResolver # Null /\ euNodeHash # Null
  /\ euExistingData' =
       IF answer = "value" /\ resolverText(euResolver, euNodeHash).form # "none"
       THEN trim(resolverText(euResolver, euNodeHash)) ELSE euExistingData
  /\ UNCHANGED <<ensRemote, previewData, ensWritten, euResolver, euIsJustaname,
                 euSigning, euSignedValue, lkVars, jeVars>>

LookupNameChange == \E name \in Names \cup {""} : HandleNameChange(name)
LookupAnswers ==
  \E l \in 1..MaxLookups, answer \in {"record", "data", "nothing"} :
     JustanameAnswers(l, answer)
LookupContractRead == \E answer \in ReadAnswers : ContractRead(answer)

NextLookup ==
  \/ LookupNameChange /\ UNCHANGED <<rlVars, authVars, upVars, uiVars, repoVars>>
  \/ DebounceFires /\ UNCHANGED <<rlVars, authVars, upVars, uiVars, repoVars>>
  \/ LookupAnswers /\ UNCHANGED <<rlVars, authVars, upVars, uiVars, repoVars>>
  \/ LookupContractRead /\ UNCHANGED <<rlVars, authVars, upVars, uiVars, repoVars>>

InitSpecLookup == InitRate /\ AuthSignedIn /\ InitUpload /\ InitUI /\ EnsUnmounted /\ InitRepo

SpecLookup == InitSpecLookup /\ [][NextLookup]_vars

---------------------------------------------------------------------------
(* Vocabulary of the upload claims: a run is an entry of upDone *)

Runs == {upDone[r] : r \in 1..Len(upDone)}
AllPopulated(run) == \A i \in 1..3 : run.args.files[i].preview # NoPreview
WritesOf(run) == SelectSeq(run.calls, LAMBDA c : c.op = "createOrUpdate")
NoTransportFailure(run) == \A i \in 1..Len(run.calls) : run.calls[i].answer # "error"
RejectedByCredential(run) == run.outcome = AuthRequired
RejectedByRateLimit(run) == run.outcome.kind = "error" /\ IsRateLimitError(run.outcome)
Succeeded(run) == run.outcome.kind = "success" /\ run.outcome.success
ExpectedKey(fp, i) ==
  fp.username \o "/" \o fp.repo \o ":og/" \o fp.folder \o "/" \o SlotNames[i] \o ".png"
ExpectedBaseUrl(fp) ==
  "https://cdn.jsdelivr.net/gh/" \o fp.username \o "/" \o fp.repo \o "/og/" \o fp.folder

---------------------------------------------------------------------------
(* Vocabulary of the wizard claims: the invocations of uploadOgCardAssets  *)
(* the wizard has made, settled or still running                           *)

IsPrivate(repo) == repo \in DOMAIN RemotePrivate /\ RemotePrivate[repo]
Invocations ==
  {run.args : run \in Runs} \cup (IF upPc = "idle" THEN {} ELSE {upArgs})

---------------------------------------------------------------------------
(* C2: the wizard never invokes uploadOgCardAssets for a repository the    *)
(* remote reports as private, so no file is written to one.                *)
C2_NoUploadToPrivateRepo ==
  \A args \in Invocations : ~IsPrivate(args.folderPath.repo)

---------------------------------------------------------------------------
(* C3: every uploadOgCardAssets invocation the wizard makes is given a     *)
(* file list in which inner, outer and overlay all have a preview.         *)
C3_UploadOnlyWithAllPreviews ==
  \A args \in Invocations : missingFiles(args.files) = {}

---------------------------------------------------------------------------
(* C14: every uploadOgCardAssets invocation the wizard makes is given a    *)
(* folder path whose username, repo and folder are all non-empty.          *)
C14_UploadPathComplete ==
  \A args \in Invocations :
     /\ args.folderPath.username # ""
     /\ args.folderPath.repo # ""
     /\ args.folderPath.folder # ""

---------------------------------------------------------------------------
(* C4: checkRateLimit(resource, n) throws the rate-limit-exceeded error,   *)
(* carrying the snapshot's remaining count and reset time, whenever the    *)
(* resource has a snapshot with remaining < n whose reset time has not     *)
(* passed (now, in whole seconds, is not greater than reset), and returns  *)
(* normally whenever now is past reset, whatever remaining is.             *)
C4_CheckRateLimit ==
  lastCheck.called =>
    LET r == lastCheck.resource
        n == lastCheck.minimumRequired
        res == lastCheck.result
    IN /\ (r \in DOMAIN rateLimits /\ rateLimits[r].remaining < n
             /\ nowSeconds <= rateLimits[r].reset)
            => /\ res.threw
               /\ res.remaining = rateLimits[r].remaining
               /\ res.resetTime = rateLimits[r].reset
       /\ (r \in DOMAIN rateLimits /\ nowSeconds > rateLimits[r].reset)
            => ~res.threw

\* checkRateLimit('core', 6) has just thrown on a live snapshot with remaining in 0..5
C4_WitnessThrows ==
  /\ lastCheck.called
  /\ lastCheck.resource = "core" /\ lastCheck.minimumRequired = 6
  /\ "core" \in DOMAIN rateLimits
  /\ rateLimits["core"].remaining = 5
  /\ nowSeconds <= rateLimits["core"].reset
  /\ lastCheck.result.threw

\* checkRateLimit('core', 6) has just returned on an expired snapshot with remaining 0
C4_WitnessExpired ==
  /\ lastCheck.called
  /\ lastCheck.resource = "core" /\ lastCheck.minimumRequired = 6
  /\ "core" \in DOMAIN rateLimits
  /\ rateLimits["core"].remaining = 0
  /\ nowSeconds > rateLimits["core"].reset
  /\ ~lastCheck.result.threw

---------------------------------------------------------------------------
(* C5: when the identity call made by setToken(t) fails, setToken rejects  *)
(* with an error whose message starts 'Invalid token or insufficient       *)
(* scope', and at that point isAuthenticated() is false, the token, the    *)
(* client and the user are null and localStorage has no github_token.      *)
C5_SetTokenRejects ==
  (lastSetToken.settled /\ lastSetToken.identity = "failed")
    => /\ lastSetToken.rejected
       /\ lastSetToken.message = "Invalid token or insufficient scope"
       /\ ~isAuthenticated
       /\ token = Null /\ octokit = Null /\ user = NoUser
       /\ lsToken = Null

\* the identity call of setToken('ghp_bad') has just failed
C5_Witness ==
  /\ lastSetToken.settled /\ lastSetToken.identity = "failed"
  /\ lastSetToken.token = "ghp_bad"
  /\ lastSetToken.message = "Invalid token or insufficient scope"
  /\ token = Null /\ lsToken = Null

---------------------------------------------------------------------------
(* C11: isAuthenticated() is true exactly when a token is persisted and an *)
(* identity was successfully fetched with that token; it is false after a  *)
(* token has been stored and before its identity call has succeeded.       *)
C11_AuthenticatedIffTokenAndIdentity ==
  isAuthenticated <=>
    (lsToken # Null /\ user # NoUser /\ user.fetchedWith = lsToken)

---------------------------------------------------------------------------
(* C12: when signOut() returns, the token, the client and the identity are *)
(* null, localStorage has no github_token and isAuthenticated() is false;  *)
(* and all of that stays so until the next setToken call stores a token,   *)
(* whatever identity calls were in flight.                                 *)
SignedOut ==
  /\ token = Null /\ octokit = Null /\ user = NoUser /\ lsToken = Null
  /\ ~isAuthenticated

C12_SignOutSticks ==
  [][ /\ SignOut => SignedOut'
      /\ (SignedOut /\ token' = Null) => SignedOut' ]_vars

---------------------------------------------------------------------------
(* C13: updateRateLimits issues a rate-limit request only if more than 5   *)
(* minutes have elapsed since the last successful refresh, also when       *)
(* earlier calls still await their response; a call inside the interval    *)
(* issues none and leaves the snapshot, lastUpdated and the persisted copy *)
(* unchanged.  lastUpdated = 0 is a tracker that has never refreshed.      *)
RequestIssued == Len(rlInflight') > Len(rlInflight)

C13_RefreshOnlyAfterInterval ==
  [][ /\ (RequestIssued /\ lastUpdated # 0) => now - lastUpdated > updateInterval
      /\ (UpdateRateLimitsConcurrent /\ now - lastUpdated < updateInterval)
            => (~RequestIssued /\ UNCHANGED <<rateLimits, lastUpdated, lsRateLimits>>)
    ]_vars

---------------------------------------------------------------------------
---------------------------------------------------------------------------
(* Vocabulary of the ENS claims: the writes into me.yodl made so far       *)

Writes == {ensWritten[i] : i \in 1..Len(ensWritten)}
IsJsonObject(text) == text.form = "json" /\ text.doc.kind = "object"
HoldsNoJson(text) == text.form # "json"
\* the update was given an og section that is exactly { baseUrl }
GivenBaseUrl(w) ==
  w.og.kind = "object" /\ w.og.baseUrl # undefined /\ w.og.title = undefined
OnlyOg(og) == JsonText(ObjectDoc([NoMembers EXCEPT !["og"] = og]))

---------------------------------------------------------------------------
C6_WitnessGasless ==
  \E w1, w2 \in Writes :
     /\ w1.path = "justaname" /\ GivenBaseUrl(w1) /\ IsJsonObject(w1.existing)
     /\ w1.existing.doc.members["tokenSymbols"].kind = "literal"
     /\ GivenBaseUrl(w2) /\ HoldsNoJson(w2.existing)

---------------------------------------------------------------------------
(* C7: every value written into me.yodl, by any path and from any state,   *)
(* is a JSON object whose og.baseUrl is a non-empty URL.                   *)
C7_WrittenHasBaseUrl ==
  \A w \in Writes :
     /\ IsJsonObject(w.value)
     /\ w.value.doc.members["og"].kind = "object"
     /\ w.value.doc.members["og"].baseUrl \notin {undefined, ""}

---------------------------------------------------------------------------
---------------------------------------------------------------------------
(* C9: in an invocation where a createOrUpdateFileContents call failed (a  *)
(* transport error or a conflict), the invocation rejected with that       *)
(* error, the failed call is the last remote call it issued, and every     *)
(* file it wrote before is on the remote.                                  *)
C9_WriteFailureAborts ==
  \A run \in Runs :
    \A c \in 1..Len(run.calls) :
      (run.calls[c].op = "createOrUpdate" /\ run.calls[c].answer # "ok")
        => /\ run.outcome.kind = "error"
           /\ run.outcome.message = run.calls[c].answer
           /\ c = Len(run.calls)
           /\ \A b \in 1..(c - 1) :
                run.calls[b].op = "createOrUpdate" => run.calls[b].key \in DOMAIN store

C9_Witness ==
  \E run \in Runs :
    /\ Len(WritesOf(run)) = 2
    /\ WritesOf(run)[1].answer = "ok"
    /\ WritesOf(run)[2].answer = "error"
    /\ run.outcome.kind = "error"
    /\ WritesOf(run)[1].key \in DOMAIN store

---------------------------------------------------------------------------
(* C10: an invocation that ended with the rate-limit-exceeded error had    *)
(* issued no remote call.                                                  *)
C10_RateLimitOnlyBeforeFirstCall ==
  \A run \in Runs : RejectedByRateLimit(run) => run.calls = << >>

---------------------------------------------------------------------------
(* C15: an invocation given a file list in which only some slots hold a    *)
(* preview, hit by no transport failure and holding a client, is rejected  *)
(* by a rate-limit check only when fewer than 2 calls per populated slot   *)
(* remain; otherwise it returns success=true with one result per populated *)
(* slot, having written exactly the populated slots, in list order, and    *)
(* issued no call for an empty slot.                                       *)
PopulatedSlots(run) == {i \in 1..3 : run.args.files[i].preview # NoPreview}
\* the populated slots in list order
PopulatedKeys(run) ==
  LET populated == SelectSeq(<<1, 2, 3>>,
                             LAMBDA i : run.args.files[i].preview # NoPreview)
  IN [n \in 1..Len(populated) |-> ExpectedKey(run.args.folderPath, populated[n])]

C15_PartialListUploads ==
  \A run \in Runs :
    (PopulatedSlots(run) # 1..3 /\ NoTransportFailure(run)
       /\ ~RejectedByCredential(run))
      => /\ RejectedByRateLimit(run)
              => run.outcome.remaining < 2 * Cardinality(PopulatedSlots(run))
         /\ ~RejectedByRateLimit(run)
              => /\ Succeeded(run)
                 /\ Len(run.outcome.results) = Cardinality(PopulatedSlots(run))
                 /\ Len(WritesOf(run)) = Cardinality(PopulatedSlots(run))
                 /\ \A n \in 1..Len(WritesOf(run)) :
                      /\ WritesOf(run)[n].key = PopulatedKeys(run)[n]
                      /\ WritesOf(run)[n].answer = "ok"
                 /\ \A c \in 1..Len(run.calls) :
                      \E n \in 1..Len(PopulatedKeys(run)) :
                        run.calls[c].key = PopulatedKeys(run)[n]

---------------------------------------------------------------------------
(* C16: when an invocation with three assets failed after writing k < 3 of *)
(* them and the next invocation has the same folder path and assets, meets *)
(* no transport failure and is not rejected by a guard, that invocation    *)
(* returns success=true, none of its calls is answered with a conflict,    *)
(* and afterwards each of the three paths holds the content of its asset.  *)
WrittenBy(run) == {c \in 1..Len(run.calls) :
                     run.calls[c].op = "createOrUpdate" /\ run.calls[c].answer = "ok"}
FailedPartWay(run) ==
  AllPopulated(run) /\ run.outcome.kind = "error" /\ Cardinality(WrittenBy(run)) < 3

---------------------------------------------------------------------------
(* C17: in a state where the credential store holds no credential (token,  *)
(* client and github_token are null), a call of uploadOgCardAssets or of   *)
(* createRepository ends at once with 'GitHub authentication required' and *)
(* no remote call, the uploadFile call for the next file of a running      *)
(* invocation ends with that error without issuing a call, and no step of  *)
(* the service gives the store a token again.                              *)
NoCredential == token = Null /\ octokit = Null /\ lsToken = Null
LastRun(done) == done[Len(done)]
IsAuthRequired(outcome) ==
  outcome.kind = "error" /\ outcome.message = "GitHub authentication required"

C17_NoCredentialRejects ==
  [][ NoCredential =>
       /\ ServiceUpload
            => /\ upPc' = "idle" /\ Len(upDone') = Len(upDone) + 1
               /\ IsAuthRequired(LastRun(upDone').outcome)
               /\ LastRun(upDone').calls = << >>
       /\ RepoCreate
            => /\ crPc' = "idle" /\ Len(crDone') = Len(crDone) + 1
               /\ IsAuthRequired(LastRun(crDone').outcome)
               /\ LastRun(crDone').calls = << >>
       /\ (upPc = "write" /\ WriteResponse("ok")
             /\ NextFile(upArgs.files, upIdx + 1) # 0)
            => /\ upPc' = "idle" /\ Len(upDone') = Len(upDone) + 1
               /\ IsAuthRequired(LastRun(upDone').outcome)
               /\ Len(LastRun(upDone').calls) = Len(upCalls)
       /\ (ServiceUpload \/ ServiceGetContent \/ ServiceWrite
             \/ RepoCreate \/ RepoCreated \/ RepoGitkeep) => NoCredential'
    ]_vars

\* after a setToken that failed, an upload and a createRepository were
\* rejected before any remote call
C17_Witness ==
  /\ NoCredential
  /\ lastSetToken.settled /\ lastSetToken.identity = "failed"
  /\ upDone # << >> /\ IsAuthRequired(LastRun(upDone).outcome)
  /\ LastRun(upDone).calls = << >>
  /\ crDone # << >> /\ IsAuthRequired(LastRun(crDone).outcome)
  /\ LastRun(crDone).calls = << >>

\* after signOut, the uploadFile call for the second file was rejected
C17_WitnessUploadFile ==
  /\ NoCredential
  /\ upDone # << >> /\ IsAuthRequired(LastRun(upDone).outcome)
  /\ Len(LastRun(upDone).calls) = 2
  /\ LastRun(upDone).calls[2].answer = "ok"

---------------------------------------------------------------------------
(* C18: in every invocation, running or ended, the remote calls issued so  *)
(* far are getContent then createOrUpdateFileContents for the populated    *)
(* assets in list order; every call but the last has settled, and the      *)
(* getContent of the next asset was issued only after the write of the     *)
(* asset before it was accepted: at most one call is in flight.            *)
CallLogs ==
  {[args |-> upDone[r].args, calls |-> upDone[r].calls] : r \in 1..Len(upDone)}
    \cup (IF upPc = "idle" THEN {} ELSE {[args |-> upArgs, calls |-> upCalls]})
Settled(call) == "answer" \in DOMAIN call

C18_WritesAreSequential ==
  \A log \in CallLogs :
    LET keys == PopulatedKeys(log)
    IN
    /\ Len(log.calls) <= 2 * Len(keys)
    /\ \A c \in 1..Len(log.calls) :
         /\ log.calls[c].key = keys[(c + 1) \div 2]
         /\ log.calls[c].op = IF c % 2 = 1 THEN "getContent" ELSE "createOrUpdate"
         /\ c < Len(log.calls) => Settled(log.calls[c])
         /\ (c > 1 /\ c % 2 = 1) => log.calls[c - 1].answer = "ok"

\* the write of the second asset is in flight; the three calls before it
\* have settled
C18_Witness ==
  /\ upPc = "write" /\ Len(upCalls) = 4
  /\ upCalls[2].op = "createOrUpdate" /\ upCalls[2].answer = "ok"
  /\ Settled(upCalls[3]) /\ ~Settled(upCalls[4])
  /\ upCalls[4].key = ExpectedKey(upArgs.folderPath, 2)

---------------------------------------------------------------------------
(* C19: every processEnsName invocation for a name with a dot asks the     *)
(* JustaName API first; when the API answered with data the invocation     *)
(* sets the resolver of that answer and no other; it sets a hard-coded     *)
(* resolver only as its last step, after every request to the API yielded  *)
(* nothing: the Yodl resolver for a name that matches the Yodl patterns,   *)
(* the public resolver for any other name.                                 *)
HardCoded == {"yodl", "public"}

---------------------------------------------------------------------------
(* C20: when no debounce timer is pending and no processEnsName invocation *)
(* is running, nodeHash, resolverAddress, existingData and isJustaname all *)
(* belong to the name in the input: the node is its namehash, the resolver *)
(* is one found for it, the existing data is empty or a record of it, and  *)
(* isJustaname is set only with the resolver the API returned for it.      *)
LookupsSettled ==
  /\ euTimer = Null
  /\ \A l \in 1..Len(euLookups) : euLookups[l].pc = "done"

BelongsTo(name) ==
  LET clean == cleanName(name)
  IN /\ euNodeHash \in {Null, namehash(normalize(clean))}
     /\ euResolver \in {Null, ApiResolver(clean), fallbackResolver(clean)}
     /\ euExistingData \in {NoText, ApiRecord(clean), ChainRecord(clean)}
     /\ euIsJustaname => euResolver = ApiResolver(clean)

C20_StaleLookupHarmless ==
  (LookupsSettled /\ euEnsName # "") => BelongsTo(euEnsName)

---------------------------------------------------------------------------
\* a rate-limit request settles in this step: one that was started without
\* being awaited, or the one a read method awaits
RefreshSettles ==
  \/ Len(rlInflight') < Len(rlInflight)
  \/ rdPc = "refresh" /\ rdPc' # "refresh"

\* the read invocation that ended last
LastRead(done) == done[Len(done)]

\* C21: a failing rate-limit refresh never makes the primary action fail.
\* In a step in which a rate-limit request fails, the snapshot, lastUpdated
\* and the saved copy stay as they were; whenever such a request settles, the
\* upload in progress is where it was and no upload has ended, and the read
\* method that awaited it ends with its own successful result.
C21_RefreshFailureHarmless ==
  [][RefreshSettles =>
       /\ UNCHANGED <<upPc, upIdx, upArgs, upResults, upDone, store>>
       /\ rdPc = "refresh" /\ rdPc' # "refresh" =>
            /\ Len(rdDone') = Len(rdDone) + 1
            /\ LastRead(rdDone').method = rdCall.method
            /\ LastRead(rdDone').outcome = [kind |-> "success"]
            /\ LastRead(rdDone').refresh = "failed" =>
                 UNCHANGED <<rateLimits, lastUpdated, lsRateLimits>>
       /\ (\E i \in 1..Len(rlInflight) : UpdateRateLimitsFailure(i)) =>
            UNCHANGED <<rateLimits, lastUpdated, lsRateLimits, rdVars>>]_vars

\* every read method has returned its data after its awaited refresh failed,
\* and an upload has succeeded
C21_Witness ==
  /\ \E i \in 1..Len(rdDone) :
        /\ rdDone[i].refresh = "failed"
        /\ rdDone[i].outcome.kind = "success"
        /\ rdDone[i].method = "getRepositoryInfo"
  /\ \E r \in Runs : Succeeded(r)

---------------------------------------------------------------------------
\* the uploads that ended with success, in order
SuccessfulRuns == SelectSeq(upDone, LAMBDA r : Succeeded(r))

\* previewData.baseUrl as Index's effect computes it from folderPath
IndexBaseUrl == previewBaseUrl(idxFolderPath)

\* C22: whenever the wizard is on the ENS update step with preview data and an
\* upload has succeeded, the baseUrl of previewData is the baseUrl that the
\* last successful uploadOgCardAssets returned.
C22_BaseUrlIsUploaded ==
  (activeStep = 2 /\ previewDataSet /\ Len(SuccessfulRuns) > 0) =>
     IndexBaseUrl = SuccessfulRuns[Len(SuccessfulRuns)].outcome.baseUrl

---------------------------------------------------------------------------
\* load l ends in this step and reports a new file list through onFilesChange
SettlesLoaded(l) ==
  /\ l \in fuLoads /\ l \notin fuLoads'
  /\ idxFiles' # idxFiles

\* C23: image loads for two different slots that overlap in time do not lose
\* each other's result.  When a load succeeds, the file list it reports holds
\* a preview in its own slot and in every other slot whose load succeeded
\* while this load was in flight (and which the user has not cleared since).
C23_OverlappingLoadsKeepBoth ==
  [][\A l \in fuLoads :
        SettlesLoaded(l) =>
          \A o \in fuOverlap :
             o.load = l => {l.slot, o.done} \subseteq withPreviews(idxFiles')]_vars

---------------------------------------------------------------------------
\* the last setToken call was accepted and its token is the one stored
Accepted ==
  /\ lastSetToken.settled
  /\ lastSetToken.identity = "ok"
  /\ token = lastSetToken.token

\* C24: a token accepted by setToken stays in place.  When the identity call
\* that the constructor or an earlier setToken started for another token
\* fails, the accepted token, its client, its identity and its local-storage
\* entry are as they were.
C24_AcceptedTokenStays ==
  [][\A i \in 1..Len(authCalls) :
        (Accepted /\ authCalls[i].tok # token /\ FetchUserInfoFails(i)) =>
           UNCHANGED <<token, octokit, user, lsToken>>]_vars

---------------------------------------------------------------------------
---------------------------------------------------------------------------
\* C26: the cached identity always belongs to the current token: a non-null
\* user implies a non-null token, and the user was fetched with the token
\* that is currently stored.
C26_IdentityOfCurrentToken ==
  user # NoUser => (token # Null /\ user.fetchedWith = token)

---------------------------------------------------------------------------
\* the JustaName update endpoint stores a value in this step
PostsToJustaname ==
  /\ Len(ensWritten') = Len(ensWritten) + 1
  /\ ensWritten'[Len(ensWritten')].path = "justaname"

\* C27: on the gasless JustaName path the record value sent in the POST is
\* identical to the value contained in the message the wallet signed.
C27_PostedValueIsSigned ==
  [][PostsToJustaname =>
       ensWritten'[Len(ensWritten')].value = euSignedValue]_vars

---------------------------------------------------------------------------
\* Index's file list holds a preview in all three slots
ThreePreviews ==
  /\ Len(idxFiles) = 3
  /\ \A i \in 1..3 : idxFiles[i].preview # NoPreview

\* Index's folder path names a user and a repository
PathNamed == idxFolderPath.username # "" /\ idxFolderPath.repo # ""

\* C28: activeStep is always one of 0, 1, 2; it increases only by one, only
\* through handleNext with its validation passed (0 to 1 with a preview in
\* all three slots, 1 to 2 with a non-empty username and repo); every other
\* change (a StepWizard click, Back, Start Over) moves to a lower index.
C28_StepMoves ==
  [][/\ activeStep \in 0..2 /\ activeStep' \in 0..2
     /\ activeStep' > activeStep =>
          /\ activeStep' = activeStep + 1
          /\ HandleNext
          /\ activeStep = 0 => ThreePreviews
          /\ activeStep = 1 => PathNamed
     /\ (activeStep' # activeStep /\ ~HandleNext) => activeStep' < activeStep]_vars

\* the wizard has reached the last step with three previews and a named path
C28_Witness ==
  /\ activeStep = 2
  /\ ThreePreviews
  /\ PathNamed

---------------------------------------------------------------------------
\* C29: the repository that uploadOgCardAssets writes to is the one whose
\* visibility was checked: when handleConfirmUpload runs, folderPath.username
\* and folderPath.repo are the values that handleUploadToGitHub passed to
\* getRepositoryInfo for the check that opened the confirmation dialog.
C29_UploadsToCheckedRepo ==
  [][HandleConfirmUpload =>
       /\ pcFolderPath.username = pcCheckedRepo.username
       /\ pcFolderPath.repo = pcCheckedRepo.repo]_vars

---------------------------------------------------------------------------
\* C30: in PreviewCard, whenever uploadSuccess is true the folder path shown
\* (and used for the preview URL) equals the folder path of the successful
\* upload.
C30_SuccessIsForShownPath ==
  pcUploadSuccess =>
    /\ Len(SuccessfulRuns) > 0
    /\ pcFolderPath = SuccessfulRuns[Len(SuccessfulRuns)].args.folderPath

====
